---- MODULE Spec2Model ----
(***************************************************************************)
(* Model of the Unpadded buffered dispatcher (upd::buffered_undispatcher   *)
(* with its single- and double-buffered instantiations).                   *)
(*                                                                         *)
(* The dispatcher object's fields are the variables m_*; the keyring, its  *)
(* byte order and the buffer configuration are template parameters, fixed  *)
(* at construction (drawn in Init, never changed).  The remaining          *)
(* variables record what the last call did (its return value, the bytes it *)
(* fetched from its getter and handed to its putter, the actions it        *)
(* invoked) so that properties of the calls can be stated.                 *)
(***************************************************************************)
EXTENDS Integers, Sequences, FiniteSets, TLC

(* ------------------------------ bounds -------------------------------- *)

\* Bytes range over 0..MaxByte plus the byte 0x2C of the spec's scenario S3.
MaxByte == 0

\* replace<Index> is exercised for Index in 0..MaxReplaceIndex.
MaxReplaceIndex == 0

\* reply() is exercised with foreign keys whose buffer argument has
\* 1..MaxKeyBuf bytes.
MaxKeyBuf == 1

\* A size read through orders[index] for an index past the table is any of
\* 0..MaxUndefinedSize.
MaxUndefinedSize == 1

\* k2o::buffered_dispatcher::read is followed until it has stored
\* MaxOverrun bytes past the end of the input array.
MaxOverrun == 1

\* how far from its landmark values a serialized value is taken
MaxNear == 2

\* the largest offset a value is serialized at
MaxOffset == 1

\* arrays have 1..MaxLen elements
MaxLen == 2

Byte == (0..MaxByte) \cup {44}

(* --------------------------- small helpers ---------------------------- *)

\* detail::max: the largest element of a list of sizes (0 for none).
MaxOf(s) ==
  LET S == {s[i] : i \in 1..Len(s)}
  IN IF S = {} THEN 0 ELSE CHOOSE m \in S : \A x \in S : x <= m

RECURSIVE Pow256(_)
Pow256(k) == IF k = 0 THEN 1 ELSE 256 * Pow256(k - 1)

\* the first n elements of s
Take(s, n) == SubSeq(s, 1, n)

\* s without its first n elements
Drop(s, n) == SubSeq(s, n + 1, Len(s))

(* ---------------------- construction parameters ----------------------- *)

VARIABLES
  kr,          \* which keyring the dispatcher was built from (1 or 2)
  endianess,   \* Keyring::endianess: "LITTLE" or "BIG"
  cfg,         \* "single" (single_buffered_undispatcher) or "double"
  lib,         \* "upd" (upd::dispatcher) or "k2o" (k2o::dispatcher)
  features     \* action_features: "WEAK_REFERENCE" (no_storage_action) or
               \* "ANY" (action, which owns its functor)

\* The keyrings the dispatcher is instantiated with.
\*   keyring 1, three actions, one-byte index:
\*     0: add(u8, u8) -> u16    1: noop() -> void    2: spread(u8) -> u8[3]
\*   keyring 2, 300 actions, two-byte index (scenario S3), action i being
\*     i mod 3 = 0: origin() -> u8, returning i mod 256
\*     i mod 3 = 1: echo(u8) -> u8
\*     i mod 3 = 2: sink(u8) -> void
Keyrings == {1, 2}

\* Keyring::size
KeyringSize(k) == IF k = 1 THEN 3 ELSE 300

\* Footprints of the parameters and of the return type of signature i.
Signature(k, i) ==
  IF k = 1
  THEN [parameters_size |-> IF i = 0 THEN 2 ELSE IF i = 1 THEN 0 ELSE 1,
        return_type_size |-> IF i = 0 THEN 2 ELSE IF i = 1 THEN 0 ELSE 3]
  ELSE [parameters_size |-> IF i % 3 = 0 THEN 0 ELSE 1,
        return_type_size |-> IF i % 3 = 2 THEN 0 ELSE 1]

\* Keyring::index_t is the smallest unsigned integer type holding 0..N-1.
SizeofIndex(k) ==
  IF KeyringSize(k) <= 256 THEN 1 ELSE IF KeyringSize(k) <= 65536 THEN 2 ELSE 4

\* Sizes of the parameter lists of all the signatures of keyring k.
map_parameters_size(k) ==
  [i \in 1..KeyringSize(k) |-> Signature(k, i - 1).parameters_size]

size == KeyringSize(kr)

sizeof_index_t == SizeofIndex(kr)

parameters_size(i) == Signature(kr, i).parameters_size

return_type_size(i) == Signature(kr, i).return_type_size

(* ------------------------------- codec -------------------------------- *)

\* unaligned_data::interpret_with_endianess for an unsigned T of n bytes:
\* the bytes raw[offset .. offset + n - 1] (0-based) assembled least
\* significant first under LITTLE, most significant first under BIG.
RECURSIVE interpret_with_endianess(_, _, _, _)
interpret_with_endianess(raw, offset, n, order) ==
  IF n = 0 THEN 0
  ELSE IF order = "LITTLE"
       THEN raw[offset + 1] + 256 * interpret_with_endianess(raw, offset + 1, n - 1, order)
       ELSE raw[offset + 1] * Pow256(n - 1)
              + interpret_with_endianess(raw, offset + 1, n - 1, order)

\* write_with_endianess storing the least significant byte first whatever
\* the byte order is.
RECURSIVE write_least_significant_first(_, _, _)
write_least_significant_first(x, n, order) ==
  IF n = 0 THEN <<>>
  ELSE <<x % 256>> \o write_least_significant_first(x \div 256, n - 1, order)

\* unaligned_data::write_with_endianess for an unsigned x of n bytes: the
\* n bytes stored from the offset on, in ascending offset order.
RECURSIVE write_with_endianess(_, _, _)
write_with_endianess(x, n, order) ==
  IF n = 0 THEN <<>>
  ELSE IF order = "LITTLE"
       THEN <<x % 256>> \o write_with_endianess(x \div 256, n - 1, order)
       ELSE write_with_endianess(x \div 256, n - 1, order) \o <<x % 256>>

\* The response of the functor of signature i of keyring k to the argument
\* bytes args: the encoding of its return value (see Keyrings).
FunctorResponse(k, i, args, order) ==
  IF k = 1
  THEN IF i = 0 THEN write_with_endianess(args[1] + args[2], 2, order)
       ELSE IF i = 1 THEN <<>>
       ELSE <<args[1], args[1], args[1]>>
  ELSE IF i % 3 = 0 THEN <<i % 256>>
       ELSE IF i % 3 = 1 THEN <<args[1]>>
       ELSE <<>>

(* ------------------------- dispatcher and actions --------------------- *)

VARIABLES
  replaced     \* the pairs <<Index, ftor>> such that actions[Index] holds
               \* ftor, installed by replace<Index>(), instead of the
               \* Index-th functor of the keyring

\* A functor: sig names its signature, that of the sig-th function of the
\* keyring; body tells the keyring's own functor from another one.
Functor(F, body) == [sig |-> F, body |-> body]

\* detail::make_action<F, Ftor>: the sizes come from the signature F of the
\* functor.
make_action(F, Ftor) ==
  [input_size |-> parameters_size(F), output_size |-> return_type_size(F),
   sig |-> F, ftor |-> Ftor]

\* dispatcher::operator[]: the stored action at index (no bound check).
m_dispatcher(index) ==
  IF \E pair \in replaced : pair[1] = index
  THEN LET pair == CHOOSE q \in replaced : q[1] = index
       IN make_action(pair[2].sig, pair[2].body)
  ELSE make_action(index, "keyring")

\* dispatcher::get_index: sizeof(index_t) bytes taken from the front of the
\* byte sequence src, decoded in the keyring's byte order.
\* get_index as it would be if the index were decoded in one fixed byte
\* order, whatever the keyring's.
get_index_fixed_order(src) ==
  interpret_with_endianess(src, 0, sizeof_index_t, "LITTLE")

get_index(src) == interpret_with_endianess(src, 0, sizeof_index_t, endianess)

(* --------------------------- buffer sizing ---------------------------- *)

needed_input_buffer_size(k) == MaxOf(map_parameters_size(k)) + SizeofIndex(k)

needed_output_buffer_size(k) == MaxOf(map_parameters_size(k))

\* The two sizes of every keyring, computed once as the compiler does.
NeededSizes ==
  [k \in Keyrings |-> [input |-> needed_input_buffer_size(k),
                       output |-> needed_output_buffer_size(k)]]

\* single_buffered_undispatcher::buffer_size
buffer_size ==
  IF NeededSizes[kr].input > NeededSizes[kr].output
  THEN NeededSizes[kr].input ELSE NeededSizes[kr].output

\* double_buffered_undispatcher::input_buffer_size / output_buffer_size
input_buffer_size == NeededSizes[kr].input

output_buffer_size == NeededSizes[kr].output

\* Number of bytes of the array ibuf_begin() points to.
ibuf_size == IF cfg = "single" THEN buffer_size ELSE input_buffer_size

\* Number of bytes of the array obuf_begin() points to.
obuf_size == IF cfg = "single" THEN buffer_size ELSE output_buffer_size

(* ------------------------ the dispatcher object ----------------------- *)

VARIABLES
  m_is_index_loaded, m_load_count, m_ibuf_next, m_obuf_next, m_obuf_bottom,
  m_ibuf,      \* double: m_ibuf; single: the one array m_buf
  m_obuf       \* double: m_obuf; single: unused (empty), m_buf is m_ibuf

\* The object as one value, to pass to and return from the methods.
This ==
  [m_is_index_loaded |-> m_is_index_loaded, m_load_count |-> m_load_count,
   m_ibuf_next |-> m_ibuf_next, m_obuf_next |-> m_obuf_next,
   m_obuf_bottom |-> m_obuf_bottom, m_ibuf |-> m_ibuf, m_obuf |-> m_obuf]

\* ibuf_begin() / obuf_begin() of the derived class: the array each points to.
ibuf_begin(self) == self.m_ibuf

obuf_begin(self) == IF cfg = "single" THEN self.m_ibuf ELSE self.m_obuf

\* buffered_undispatcher(): the state after construction (buffers apart).
Constructed(ibuf, obuf) ==
  [m_is_index_loaded |-> FALSE, m_load_count |-> sizeof_index_t,
   m_ibuf_next |-> 0, m_obuf_next |-> 0, m_obuf_bottom |-> 0,
   m_ibuf |-> ibuf, m_obuf |-> obuf]

is_loaded(self) == self.m_obuf_next # self.m_obuf_bottom

\* --m_load_count on a std::size_t: 0 wraps to the largest value (shown here
\* by the largest integer TLC represents).
Decrement(n) == IF n = 0 THEN 2147483647 ELSE n - 1

\* The store of put() as it would be if it went through obuf_begin(): into
\* the output array of the double-buffered dispatcher.
StoreByte_through_obuf_begin(self, byte) ==
  IF obuf_begin(self) = self.m_ibuf
  THEN [self EXCEPT
          !.m_ibuf = IF self.m_ibuf_next < Len(@)
                     THEN [@ EXCEPT ![self.m_ibuf_next + 1] = byte] ELSE @,
          !.m_ibuf_next = @ + 1]
  ELSE [self EXCEPT
          !.m_obuf = IF self.m_ibuf_next < Len(@)
                     THEN [@ EXCEPT ![self.m_ibuf_next + 1] = byte] ELSE @,
          !.m_ibuf_next = @ + 1]

\* ibuf_begin()[m_ibuf_next++] = byte.  A store past the array is recorded
\* by the caller through its offset; the array itself is left alone.
StoreByte(self, byte) ==
  [self EXCEPT
     !.m_ibuf = IF self.m_ibuf_next < Len(@)
                THEN [@ EXCEPT ![self.m_ibuf_next + 1] = byte] ELSE @,
     !.m_ibuf_next = @ + 1]

\* The three assignments that put the input side back to its initial state.
ResetInput(self) ==
  [self EXCEPT !.m_is_index_loaded = FALSE, !.m_load_count = sizeof_index_t,
               !.m_ibuf_next = 0]

\* put() as it would be without the test for an action that takes no
\* argument: the index is marked loaded with nothing left to load.
put_without_empty_request_case(self, byte) ==
  LET stored == [StoreByte(self, byte) EXCEPT !.m_load_count = Decrement(@)]
  IN
  IF stored.m_load_count > 0
  THEN [self |-> stored, status |-> "LOADING_PACKET"]
  ELSE IF stored.m_is_index_loaded
  THEN [self |-> ResetInput(stored), status |-> "RESOLVED_PACKET"]
  ELSE LET index == get_index(ibuf_begin(stored)) IN
       IF index < size
       THEN [self |-> [stored EXCEPT
                         !.m_load_count = m_dispatcher(index).input_size,
                         !.m_is_index_loaded = TRUE],
             status |-> "LOADING_PACKET"]
       ELSE [self |-> ResetInput(stored), status |-> "DROPPED_PACKET"]

\* put() as it would be if a dropped packet did not restore m_load_count.
put_dropped_keeps_count(self, byte) ==
  LET stored == [StoreByte(self, byte) EXCEPT !.m_load_count = Decrement(@)]
  IN
  IF stored.m_load_count > 0
  THEN [self |-> stored, status |-> "LOADING_PACKET"]
  ELSE IF stored.m_is_index_loaded
  THEN [self |-> ResetInput(stored), status |-> "RESOLVED_PACKET"]
  ELSE LET index == get_index(ibuf_begin(stored)) IN
       IF index < size
       THEN LET loaded == [stored EXCEPT
                             !.m_load_count = m_dispatcher(index).input_size,
                             !.m_is_index_loaded = TRUE]
            IN IF loaded.m_load_count = 0
               THEN [self |-> ResetInput(loaded), status |-> "RESOLVED_PACKET"]
               ELSE [self |-> loaded, status |-> "LOADING_PACKET"]
       ELSE [self |-> [stored EXCEPT !.m_is_index_loaded = FALSE,
                                     !.m_ibuf_next = 0],
             status |-> "DROPPED_PACKET"]

\* put() as it would be if a resolved packet did not rewind m_ibuf_next.
put_resolved_keeps_next(self, byte) ==
  LET stored == [StoreByte(self, byte) EXCEPT !.m_load_count = Decrement(@)]
      resolved == [stored EXCEPT !.m_is_index_loaded = FALSE,
                                 !.m_load_count = sizeof_index_t]
  IN
  IF stored.m_load_count > 0
  THEN [self |-> stored, status |-> "LOADING_PACKET"]
  ELSE IF stored.m_is_index_loaded
  THEN [self |-> resolved, status |-> "RESOLVED_PACKET"]
  ELSE LET index == get_index(ibuf_begin(stored)) IN
       IF index < size
       THEN LET loaded == [stored EXCEPT
                             !.m_load_count = m_dispatcher(index).input_size,
                             !.m_is_index_loaded = TRUE]
            IN IF loaded.m_load_count = 0
               THEN [self |-> ResetInput(loaded), status |-> "RESOLVED_PACKET"]
               ELSE [self |-> loaded, status |-> "LOADING_PACKET"]
       ELSE [self |-> ResetInput(stored), status |-> "DROPPED_PACKET"]

\* put(byte): the new object and the returned packet_status.
put(self, byte) ==
  LET stored == [StoreByte(self, byte) EXCEPT !.m_load_count = Decrement(@)]
  IN
  IF stored.m_load_count > 0
  THEN [self |-> stored, status |-> "LOADING_PACKET"]
  ELSE IF stored.m_is_index_loaded
  THEN [self |-> ResetInput(stored), status |-> "RESOLVED_PACKET"]
  ELSE LET index == get_index(ibuf_begin(stored)) IN
       IF index < size
       THEN LET loaded == [stored EXCEPT
                             !.m_load_count = m_dispatcher(index).input_size,
                             !.m_is_index_loaded = TRUE]
            IN IF loaded.m_load_count = 0
               THEN [self |-> ResetInput(loaded), status |-> "RESOLVED_PACKET"]
               ELSE [self |-> loaded, status |-> "LOADING_PACKET"]
       ELSE [self |-> ResetInput(stored), status |-> "DROPPED_PACKET"]

\* get() as it would be without the is_loaded() test.
get_unguarded(self) ==
  [self |-> [self EXCEPT !.m_obuf_next = @ + 1],
   byte |-> IF self.m_obuf_next < Len(obuf_begin(self))
            THEN obuf_begin(self)[self.m_obuf_next + 1] ELSE 0,
   read |-> TRUE]

\* get(): the new object, the returned byte, and whether a byte was taken
\* from the output buffer.
get(self) ==
  IF is_loaded(self)
  THEN [self |-> [self EXCEPT !.m_obuf_next = @ + 1],
        byte |-> IF self.m_obuf_next < Len(obuf_begin(self))
                 THEN obuf_begin(self)[self.m_obuf_next + 1] ELSE 0,
        read |-> TRUE]
  ELSE [self |-> self, byte |-> 0, read |-> FALSE]

\* read_from(src), src yielding the bytes of stream in turn, from the n-th
\* on: the first loop (index not loaded and the packet still loading), then
\* the second loop (index loaded).  n counts the calls of src; done is
\* FALSE when the stream ran out before read_from returned.
RECURSIVE read_from_args(_, _, _, _)
read_from_args(self, status, stream, n) ==
  IF self.m_is_index_loaded
  THEN IF n >= Len(stream)
       THEN [self |-> self, status |-> status, n |-> n, done |-> FALSE]
       ELSE LET r == put(self, stream[n + 1])
            IN read_from_args(r.self, r.status, stream, n + 1)
  ELSE [self |-> self, status |-> status, n |-> n, done |-> TRUE]

RECURSIVE read_from_index(_, _, _, _)
read_from_index(self, status, stream, n) ==
  IF ~self.m_is_index_loaded /\ status = "LOADING_PACKET"
  THEN IF n >= Len(stream)
       THEN [self |-> self, status |-> status, n |-> n, done |-> FALSE]
       ELSE LET r == put(self, stream[n + 1])
            IN read_from_index(r.self, r.status, stream, n + 1)
  ELSE read_from_args(self, status, stream, n)

\* read_from() as it would be if its first loop did not test the status.
RECURSIVE read_from_index_untested(_, _, _, _)
read_from_index_untested(self, status, stream, n) ==
  IF ~self.m_is_index_loaded
  THEN IF n >= Len(stream)
       THEN [self |-> self, status |-> status, n |-> n, done |-> FALSE]
       ELSE LET r == put(self, stream[n + 1])
            IN read_from_index_untested(r.self, r.status, stream, n + 1)
  ELSE read_from_args(self, status, stream, n)

read_from_status_untested(self, stream) ==
  read_from_index_untested(self, "LOADING_PACKET", stream, 0)

read_from(self, stream) == read_from_index(self, "LOADING_PACKET", stream, 0)

\* write_to() as it would be with the test after the body (do ... while).
write_to_test_last(self) ==
  LET g == get(self)
  IN [self |-> g.self, out |-> <<g.byte>>]

\* write_to(dest): the new object and the bytes handed to dest, in order.
RECURSIVE write_to(_)
write_to(self) ==
  IF is_loaded(self)
  THEN LET g == get(self)
           rest == write_to(g.self)
       IN [self |-> rest.self, out |-> <<g.byte>> \o rest.out]
  ELSE [self |-> self, out |-> <<>>]

\* operator()() as it would be if write_to were called whatever the status
\* read_from returned.
process_always_write_to(self, stream) ==
  LET r == read_from(self, stream)
      w == write_to(r.self)
  IN [self |-> w.self, status |-> r.status, n |-> r.n, done |-> r.done,
      out |-> w.out, calls |-> <<"read_from", "write_to">>]

\* operator()(src, dest): read_from, then write_to if the packet resolved.
\* calls lists the member functions it called, in order.
process(self, stream) ==
  LET r == read_from(self, stream)
      w == IF r.status = "RESOLVED_PACKET" THEN write_to(r.self)
           ELSE [self |-> r.self, out |-> <<>>]
  IN [self |-> w.self, status |-> r.status, n |-> r.n, done |-> r.done,
      out |-> w.out,
      calls |-> IF r.status = "RESOLVED_PACKET"
                THEN <<"read_from", "write_to">> ELSE <<"read_from">>]

\* A key of another keyring whose only argument is a byte buffer of len
\* bytes: its request is the index followed by the buffer.
ForeignKey(len) == [index |-> 0, sizeof_index |-> 1, payload_length |-> 1 + len]

KeyRequest(k, buf) == <<k.index>> \o buf

\* reply(output, k): buf_t buf is not initialised (its bytes are those of
\* fill) before write_to copies the output buffer into its front.
reply(self, k, fill) ==
  LET buf_size == k.payload_length - k.sizeof_index IN
  IF ~(self.m_obuf_next = 0 /\ self.m_obuf_bottom <= buf_size)
  THEN [self |-> self, ret |-> FALSE, out |-> <<>>, copied |-> <<>>]
  ELSE LET w == write_to(self)
           buf == [i \in 1..buf_size |->
                     IF i <= Len(w.out) THEN w.out[i] ELSE fill[i]]
       IN [self |-> w.self, ret |-> TRUE, out |-> KeyRequest(k, buf),
           copied |-> w.out]

\* replace() as it would be without its static_asserts.
replace_unchecked(Index, ftor) ==
  {pair \in replaced : pair[1] # Index}
    \cup (IF ftor = Functor(Index, "keyring") THEN {}
          ELSE {<<Index, ftor>>})

\* replace<Index>(ftor): the static_asserts on Index < size and on the
\* signature of ftor make any other call ill-formed, so such a call is part
\* of no program and the table is as before.  Otherwise the action at Index
\* is rebuilt from ftor; the result is the new table.
replace(Index, ftor) ==
  IF Index < size /\ Signature(kr, ftor.sig) = Signature(kr, Index)
  THEN {pair \in replaced : pair[1] # Index}
         \cup (IF ftor = Functor(Index, "keyring") THEN {}
               ELSE {<<Index, ftor>>})
  ELSE replaced

(* ---------------------- what the last call did ------------------------ *)

VARIABLES
  op,            \* the last call: "construct", "put", "get", "read_from", ...
  status,        \* the packet_status it returned, "none" if it returns none
  ret,           \* the byte get() returned; of reply(), the bool it
                 \* returned and the key k it was given
  fed,           \* the bytes it took from its getter (put: its argument)
  dest_out,      \* the bytes it handed to its putter, in order; of the
                 \* request of a reply, those before the indeterminate
                 \* tail of its buffer argument
  dest_count,    \* the number of bytes it handed to its putter
  invoked,       \* the indices of the actions it invoked, in order
  events,        \* the calls it made, in order: "src" (a byte fetched),
                 \* "apply" (the wrapped function applied), "dest" (a byte
                 \* handed over); of operator()() of the buffered
                 \* dispatcher, the member functions it called
  from_idle,     \* whether the input side was in its initial state before
  max_store,     \* largest input-buffer offset it stored at, -1 if none
  max_read,      \* largest output-buffer offset it read at, -1 if none
  max_write,     \* largest output-buffer offset the putter handed to an
                 \* action or order stored at, -1 if none
  req,           \* the bytes put since the last packet ended
  packet,        \* the bytes of the packet that just ended, <<>> once a
                 \* later byte has been put
  packet_status, \* how that packet ended, "none" if packet is <<>>
  drained,       \* the bytes get() took from the output buffer since the
                 \* last packet resolved
  twin,          \* where two dispatchers are given the same calls: the
                 \* other one and what its last call returned; "none"
                 \* where there is one dispatcher
  codec,         \* where a value is serialized on its own: the
                 \* unaligned_data it is written to and read from, and
                 \* what was written and read; "none" elsewhere
  heap           \* of the plain dispatcher: the blocks of free store its
                 \* actions hold, and the blocks the last call obtained
                 \* and released, counted in the "new" and "delete" of
                 \* its events; "none" elsewhere

object == <<m_is_index_loaded, m_load_count, m_ibuf_next, m_obuf_next,
            m_obuf_bottom, m_ibuf, m_obuf>>

params == <<kr, endianess, cfg, lib, features>>

history == <<req, packet, packet_status, drained>>

last_call == <<op, status, ret, fed, dest_out, dest_count, invoked,
               events, from_idle, max_store, max_read, max_write>>

vars == <<params, replaced, object, last_call, history, twin, codec, heap>>

Idle(self) ==
  /\ ~self.m_is_index_loaded
  /\ self.m_load_count = sizeof_index_t
  /\ self.m_ibuf_next = 0

History == [self |-> This, req |-> req, packet |-> packet,
            packet_status |-> packet_status, drained |-> drained,
            max_store |-> -1]

\* The history after the bytes have been put one after the other.
RECURSIVE Feed(_, _)
Feed(h, bytes) ==
  IF bytes = <<>> THEN h
  ELSE LET r == put(h.self, Head(bytes))
           ended == r.status # "LOADING_PACKET"
           at == h.self.m_ibuf_next
       IN Feed([self |-> r.self,
                req |-> IF ended THEN <<>> ELSE Append(h.req, Head(bytes)),
                packet |-> IF ended THEN Append(h.req, Head(bytes)) ELSE <<>>,
                packet_status |-> IF ended THEN r.status ELSE "none",
                drained |-> IF r.status = "RESOLVED_PACKET" THEN <<>>
                            ELSE h.drained,
                max_store |-> IF at > h.max_store THEN at ELSE h.max_store],
               Tail(bytes))

SetObject(self) ==
  /\ m_is_index_loaded' = self.m_is_index_loaded
  /\ m_load_count' = self.m_load_count
  /\ m_ibuf_next' = self.m_ibuf_next
  /\ m_obuf_next' = self.m_obuf_next
  /\ m_obuf_bottom' = self.m_obuf_bottom
  /\ m_ibuf' = self.m_ibuf
  /\ m_obuf' = self.m_obuf

SetHistory(h, taken) ==
  /\ req' = h.req
  /\ packet' = h.packet
  /\ packet_status' = h.packet_status
  /\ drained' = h.drained \o taken
  /\ max_store' = h.max_store

\* Largest output-buffer offset read when `taken` bytes are got from self.
MaxRead(self, taken) ==
  IF taken = <<>> THEN -1 ELSE self.m_obuf_next + Len(taken) - 1

(* ------------------------------ actions ------------------------------- *)

Init ==
  /\ kr \in Keyrings
  /\ endianess \in {"LITTLE", "BIG"}
  /\ cfg \in {"single", "double"}
  /\ lib = "upd" /\ features = "WEAK_REFERENCE"
  /\ replaced = {}
  \* the arrays are not initialised by the constructors
  /\ m_ibuf \in [1..ibuf_size -> Byte]
  /\ m_obuf \in IF cfg = "single" THEN {<<>>}
                ELSE [1..output_buffer_size -> Byte]
  /\ m_is_index_loaded = Constructed(m_ibuf, m_obuf).m_is_index_loaded
  /\ m_load_count = Constructed(m_ibuf, m_obuf).m_load_count
  /\ m_ibuf_next = Constructed(m_ibuf, m_obuf).m_ibuf_next
  /\ m_obuf_next = Constructed(m_ibuf, m_obuf).m_obuf_next
  /\ m_obuf_bottom = Constructed(m_ibuf, m_obuf).m_obuf_bottom
  /\ op = "construct" /\ status = "none" /\ ret = "none"
  /\ fed = <<>> /\ dest_out = <<>> /\ dest_count = 0
  /\ invoked = <<>> /\ events = <<>>
  /\ from_idle = TRUE /\ max_store = -1 /\ max_read = -1
  /\ max_write = -1
  /\ req = <<>> /\ packet = <<>> /\ packet_status = "none" /\ drained = <<>>
  /\ twin = "none"
  /\ codec = "none"
  /\ heap = "none"

Put ==
  \E byte \in Byte :
    LET r == put(This, byte) IN
    /\ SetObject(r.self)
    /\ SetHistory(Feed(History, <<byte>>), <<>>)
    /\ op' = "put" /\ status' = r.status /\ ret' = "none"
    /\ fed' = <<byte>> /\ dest_out' = <<>> /\ dest_count' = 0
    \* put asks the stored action for its input_size only
    /\ invoked' = <<>> /\ events' = <<>>
    /\ from_idle' = Idle(This) /\ max_read' = -1
    /\ max_write' = -1
    /\ UNCHANGED <<params, replaced, twin, codec, heap>>

Get ==
  LET g == get(This)
      taken == IF g.read THEN <<g.byte>> ELSE <<>> IN
  /\ SetObject(g.self)
  /\ SetHistory(History, taken)
  /\ op' = "get" /\ status' = "none" /\ ret' = g.byte
  /\ fed' = <<>> /\ dest_out' = <<>> /\ dest_count' = 0
  /\ invoked' = <<>> /\ events' = <<>>
  /\ from_idle' = Idle(This) /\ max_read' = MaxRead(This, taken)
  /\ max_write' = -1
  /\ UNCHANGED <<params, replaced, twin, codec, heap>>

\* The byte streams a getter may yield to one read_from called on This:
\* the extensions of prefix by at most n bytes on whose last byte read_from
\* returns.  A getter is asked for MaxStream bytes at most.
RECURSIVE StreamsFrom(_, _)
StreamsFrom(prefix, n) ==
  IF n = 0 THEN {}
  ELSE UNION {LET stream == Append(prefix, b) IN
              IF read_from(This, stream).done THEN {stream}
              ELSE StreamsFrom(stream, n - 1) : b \in Byte}

MaxStream == NeededSizes[kr].input + 1

Streams == StreamsFrom(<<>>, MaxStream)

ReadFrom ==
  \E stream \in Streams :
    LET r == read_from(This, stream) IN
    /\ r.done /\ r.n = Len(stream)
    /\ SetObject(r.self)
    /\ SetHistory(Feed(History, stream), <<>>)
    /\ op' = "read_from" /\ status' = r.status /\ ret' = "none"
    /\ fed' = stream /\ dest_out' = <<>> /\ dest_count' = 0
    /\ invoked' = <<>> /\ events' = <<>>
    /\ from_idle' = Idle(This) /\ max_read' = -1
    /\ max_write' = -1
    /\ UNCHANGED <<params, replaced, twin, codec, heap>>

WriteTo ==
  LET w == write_to(This) IN
  /\ SetObject(w.self)
  /\ SetHistory(History, w.out)
  /\ op' = "write_to" /\ status' = "none" /\ ret' = "none"
  /\ fed' = <<>> /\ dest_out' = w.out /\ dest_count' = Len(w.out)
  /\ invoked' = <<>> /\ events' = <<>>
  /\ from_idle' = Idle(This) /\ max_read' = MaxRead(This, w.out)
  /\ max_write' = -1
  /\ UNCHANGED <<params, replaced, twin, codec, heap>>

Process ==
  \E stream \in Streams :
    LET p == process(This, stream)
        h == Feed(History, stream) IN
    /\ p.done /\ p.n = Len(stream)
    /\ SetObject(p.self)
    /\ SetHistory(h, p.out)
    /\ op' = "process" /\ status' = p.status /\ ret' = "none"
    /\ fed' = stream /\ dest_out' = p.out /\ dest_count' = Len(p.out)
    /\ invoked' = <<>> /\ events' = p.calls
    /\ from_idle' = Idle(This) /\ max_read' = MaxRead(h.self, p.out)
    /\ max_write' = -1
    /\ UNCHANGED <<params, replaced, twin, codec, heap>>

Reply ==
  \E len \in 1..MaxKeyBuf : \E fill \in [1..len -> Byte] :
    LET k == ForeignKey(len)
        r == reply(This, k, fill)
    IN
    /\ SetObject(r.self)
    /\ SetHistory(History, r.copied)
    /\ op' = "reply" /\ status' = "none"
    /\ ret' = [returned |-> r.ret, k |-> k]
    /\ fed' = <<>> /\ invoked' = <<>> /\ events' = <<>>
    /\ dest_out' = IF r.ret THEN Take(r.out, k.sizeof_index + Len(r.copied))
                 ELSE <<>>
    /\ dest_count' = Len(r.out)
    /\ from_idle' = Idle(This) /\ max_read' = MaxRead(This, r.copied)
    /\ max_write' = -1
    /\ UNCHANGED <<params, replaced, twin, codec, heap>>

Replace ==
  \E Index \in 0..MaxReplaceIndex : \E body \in {"keyring", "replacement"} :
    /\ replaced' = replace(Index, Functor(Index, body))
    /\ op' = "replace" /\ status' = "none" /\ ret' = "none"
    /\ fed' = <<>> /\ dest_out' = <<>> /\ dest_count' = 0
    /\ invoked' = <<>> /\ events' = <<>>
    /\ from_idle' = Idle(This) /\ max_store' = -1 /\ max_read' = -1
    /\ max_write' = -1
    /\ UNCHANGED <<params, object, history, twin, codec, heap>>

Next == Put \/ Get \/ ReadFrom \/ WriteTo \/ Process \/ Reply \/ Replace

Spec == Init /\ [][Next]_vars

(* ------------------------- the plain dispatcher ----------------------- *)

\* In what follows src yields the bytes of stream in turn; n counts the
\* calls of src made so far, out lists the bytes handed to dest, and done
\* is FALSE when the stream ran out before the call returned.

\* The bytes the functor wrapped by action a returns for the argument bytes
\* args.  A functor installed by replace returns the complement of what the
\* keyring's functor of the same signature returns.
ActionResponse(a, args) ==
  LET r == FunctorResponse(kr, a.sig, args, endianess)
  IN IF a.ftor = "keyring" THEN r ELSE [j \in 1..Len(r) |-> 255 - r[j]]

Repeat(e, count) == [j \in 1..count |-> e]

\* detail::make_function_reference(f): the caller's src or dest wrapped
\* as a reference to it, which involves no operation on the free store.
make_function_reference == <<>>

\* tuple::invoke(ftor): the wrapped function applied to the values the
\* tuple holds, the tuple and the values being in automatic storage.
tuple_invoke == <<"apply">>

\* detail::insert: the return value serialised, each byte handed to dest.
insert(value) == [out |-> value, events |-> Repeat("dest", Len(value))]

\* detail::static_storage_duration_callback_wrapper, the body of a
\* no_storage_action: parameters_tuple is filled from src, Ftor is applied,
\* and (return type not void) the bytes of return_tuple are handed to dest.
static_storage_duration_callback_wrapper(a, stream, n) ==
  IF n + a.input_size > Len(stream)
  THEN [done |-> FALSE, n |-> Len(stream), out |-> <<>>,
        events |-> Repeat("src", Len(stream) - n)]
  ELSE LET parameters_tuple == SubSeq(stream, n + 1, n + a.input_size)
           return_tuple == ActionResponse(a, parameters_tuple)
       IN [done |-> TRUE, n |-> n + a.input_size,
           out |-> IF a.output_size = 0 THEN <<>> ELSE return_tuple,
           events |-> Repeat("src", a.input_size) \o tuple_invoke
                        \o IF a.output_size = 0 THEN <<>>
                           ELSE Repeat("dest", Len(return_tuple))]

\* call() as it would be if the return value were handed to dest before
\* all the arguments have been fetched.
call_replying_early(a, stream, n) ==
  IF n + a.input_size > Len(stream)
  THEN [done |-> FALSE, n |-> Len(stream), out |-> <<>>,
        events |-> Repeat("src", Len(stream) - n)]
  ELSE LET input_args == SubSeq(stream, n + 1, n + a.input_size)
           ins == insert(ActionResponse(a, input_args))
       IN [done |-> TRUE, n |-> n + a.input_size, out |-> ins.out,
           events |-> tuple_invoke \o ins.events
                        \o Repeat("src", a.input_size)]

\* call() as it would be if input_args were built on the free store and
\* released before it returns.
call_on_free_store(a, stream, n) ==
  IF n + a.input_size > Len(stream)
  THEN [done |-> FALSE, n |-> Len(stream), out |-> <<>>,
        events |-> <<"new">> \o Repeat("src", Len(stream) - n)]
  ELSE LET input_args == SubSeq(stream, n + 1, n + a.input_size)
           ins == IF a.output_size = 0 THEN insert(<<>>)
                  ELSE insert(ActionResponse(a, input_args))
       IN [done |-> TRUE, n |-> n + a.input_size, out |-> ins.out,
           events |-> <<"new">> \o Repeat("src", a.input_size)
                        \o tuple_invoke \o ins.events \o <<"delete">>]

\* detail::call<tuple_t>(src, dest, ftor), the body of an action that owns
\* its functor: input_args is filled from src, ftor is applied, and (return
\* type not void) the value is inserted into dest.
call(a, stream, n) ==
  IF n + a.input_size > Len(stream)
  THEN [done |-> FALSE, n |-> Len(stream), out |-> <<>>,
        events |-> Repeat("src", Len(stream) - n)]
  ELSE LET input_args == SubSeq(stream, n + 1, n + a.input_size)
           ins == IF a.output_size = 0 THEN insert(<<>>)
                  ELSE insert(ActionResponse(a, input_args))
       IN [done |-> TRUE, n |-> n + a.input_size, out |-> ins.out,
           events |-> Repeat("src", a.input_size) \o tuple_invoke
                        \o ins.events]

\* action::operator() / no_storage_action::operator() (k2o: order,
\* no_storage_order) of the action stored at index.
invoke(index, stream, n) ==
  LET r == IF features = "WEAK_REFERENCE"
           THEN static_storage_duration_callback_wrapper(m_dispatcher(index),
                                                         stream, n)
           ELSE call(m_dispatcher(index), stream, n)
  IN [r EXCEPT !.events = make_function_reference \o make_function_reference
                            \o @]

\* get_index(src): sizeof(index_t) calls of src, then the decoding.
\* upd: the bytes fill a tuple<endianess, signed_mode, index_t>.
get_index_from(stream) ==
  IF Len(stream) < sizeof_index_t
  THEN [done |-> FALSE, n |-> Len(stream), index |-> 0]
  ELSE [done |-> TRUE, n |-> sizeof_index_t, index |-> get_index(stream)]

\* k2o: detail::get_index fills index_buf and decodes it with read_index,
\* which is upd::read_as<index_t, Endianess, Signed_Mode>.
k2o_get_index(stream) ==
  IF Len(stream) < sizeof_index_t
  THEN [done |-> FALSE, n |-> Len(stream), index |-> 0]
  ELSE LET index_buf == SubSeq(stream, 1, sizeof_index_t)
       IN [done |-> TRUE, n |-> sizeof_index_t,
           index |-> interpret_with_endianess(index_buf, 0, sizeof_index_t,
                                              endianess)]

\* dispatcher::operator() as it would be if the action were handed a src
\* that starts over at the first byte instead of the one get_index used.
dispatch_restarting_src(stream) ==
  LET g == get_index_from(stream) IN
  IF ~g.done
  THEN [done |-> FALSE, n |-> g.n, ret |-> 0, out |-> <<>>,
        invoked |-> <<>>, events |-> Repeat("src", g.n)]
  ELSE IF g.index < size
  THEN LET r == invoke(g.index, stream, 0)
       IN [done |-> r.done, n |-> IF r.n > g.n THEN r.n ELSE g.n,
           ret |-> g.index, out |-> r.out, invoked |-> <<g.index>>,
           events |-> Repeat("src", g.n) \o r.events]
  ELSE [done |-> TRUE, n |-> g.n, ret |-> g.index, out |-> <<>>,
        invoked |-> <<>>, events |-> Repeat("src", g.n)]

\* dispatcher::operator() as it would be without the test index < size:
\* the action read past the end of the table is any action.
dispatch_unchecked(stream) ==
  LET g == get_index_from(stream) IN
  IF ~g.done
  THEN [done |-> FALSE, n |-> g.n, ret |-> 0, out |-> <<>>,
        invoked |-> <<>>, events |-> Repeat("src", g.n)]
  ELSE LET r == invoke(IF g.index < size THEN g.index ELSE 0, stream, g.n)
       IN [done |-> r.done, n |-> r.n, ret |-> g.index, out |-> r.out,
           invoked |-> <<g.index>>,
           events |-> Repeat("src", g.n) \o r.events]

\* upd::dispatcher::operator()(src, dest)
dispatch(stream) ==
  LET g == get_index_from(stream) IN
  IF ~g.done
  THEN [done |-> FALSE, n |-> g.n, ret |-> 0, out |-> <<>>,
        invoked |-> <<>>, events |-> Repeat("src", g.n)]
  ELSE IF g.index < size
  THEN LET r == invoke(g.index, stream, g.n)
       IN [done |-> r.done, n |-> r.n, ret |-> g.index, out |-> r.out,
           invoked |-> <<g.index>>,
           events |-> Repeat("src", g.n) \o r.events]
  ELSE [done |-> TRUE, n |-> g.n, ret |-> g.index, out |-> <<>>,
        invoked |-> <<>>, events |-> Repeat("src", g.n)]

\* k2o::detail::dispatcher_impl::operator()(src, dest)
dispatcher_impl(stream) ==
  LET g == k2o_get_index(stream) IN
  IF ~g.done
  THEN [done |-> FALSE, n |-> g.n, ret |-> 0, out |-> <<>>,
        invoked |-> <<>>, events |-> Repeat("src", g.n)]
  ELSE IF g.index < size
  THEN LET r == invoke(g.index, stream, g.n)
       IN [done |-> r.done, n |-> r.n, ret |-> g.index, out |-> r.out,
           invoked |-> <<g.index>>,
           events |-> Repeat("src", g.n) \o r.events]
  ELSE [done |-> TRUE, n |-> g.n, ret |-> g.index, out |-> <<>>,
        invoked |-> <<>>, events |-> Repeat("src", g.n)]

\* get_action() as it would be with the test index <= size.
get_action_off_by_one(stream) ==
  LET g == get_index_from(stream) IN
  [done |-> g.done, n |-> g.n,
   ret |-> IF g.index <= size THEN [has |-> TRUE, action |-> g.index]
           ELSE [has |-> FALSE]]

\* upd::dispatcher::get_action(src): a pointer to the action, or nullptr.
get_action(stream) ==
  LET g == get_index_from(stream) IN
  [done |-> g.done, n |-> g.n,
   ret |-> IF g.index < size THEN [has |-> TRUE, action |-> g.index]
           ELSE [has |-> FALSE]]

\* k2o::detail::dispatcher_impl::get_order(src): the order, or the index as
\* the unexpected value.
get_order(stream) ==
  LET g == k2o_get_index(stream) IN
  [done |-> g.done, n |-> g.n,
   ret |-> IF g.index < size THEN [has |-> TRUE, action |-> g.index]
           ELSE [has |-> FALSE, error |-> g.index]]

\* The bytes a getter may yield: those of Byte, and those that spell the
\* index 1 and the index size, the first past the table.
SrcByte == Byte \cup {1, size % 256}

\* The byte streams a getter may yield: any bytes, MaxStream at most.
AllStreams == UNION {[1..len -> SrcByte] : len \in 1..MaxStream}

\* The functors replace is called with: of the signature of one of the
\* first functions of the keyring, the keyring's own or another.
MaxFunctorSig == 2

Functors ==
  {Functor(F, body) : F \in 0..MaxFunctorSig,
                      body \in {"keyring", "replacement"}}

\* What the constructor of one action does to the free store.
\* action::action holds its functor in a new action_model, owned by
\* m_concept_uptr; no_storage_action holds a pointer to a function and two
\* sizes.
action_construct(Features) == IF Features = "ANY" THEN <<"new">> ELSE <<>>

\* What the destructor of one action does: m_concept_uptr deletes the
\* model it holds, if it holds one; no_storage_action has nothing to
\* release.
action_destroy(Features, holds) ==
  IF Features = "ANY" /\ holds THEN <<"delete">> ELSE <<>>

\* actions_t: content{make_action()...}, one action constructed for each
\* of the first n functions of the keyring.
actions(n) ==
  LET one == action_construct(features)
  IN [j \in 1..(n * Len(one)) |-> one[((j - 1) % Len(one)) + 1]]

\* content[Index] = make_action(): the new action is constructed, the
\* move assignment releases the model the stored action held and takes
\* that of the new one, and the new action is destroyed holding none.
action_assign(Features) ==
  action_construct(Features) \o action_destroy(Features, TRUE)
    \o action_destroy(Features, FALSE)

\* The free store after a call that made the calls of trace: the blocks
\* held, and the blocks that call obtained and released.
FreeStore(self, trace) ==
  LET obtained == Len(SelectSeq(trace, LAMBDA e : e = "new"))
      given_back == Len(SelectSeq(trace, LAMBDA e : e = "delete"))
  IN [resident |-> self.resident + obtained - given_back,
      allocated |-> obtained, released |-> given_back]

\* The dispatcher after construction from the keyring.  The buffered
\* dispatcher's fields take no part in what follows and keep these values.
InitDispatcher ==
  /\ kr \in Keyrings
  /\ endianess \in {"LITTLE", "BIG"}
  /\ lib \in {"upd", "k2o"}
  /\ features \in {"WEAK_REFERENCE", "ANY"}
  \* k2o: no_storage_order hands the functor's result to make_tuple, which
  \* is ill-formed for a function returning void, and both keyrings have one
  /\ lib = "k2o" => features = "ANY"
  /\ cfg = "double"
  /\ replaced = {}
  /\ m_ibuf = [i \in 1..ibuf_size |-> 0]
  /\ m_obuf = [i \in 1..output_buffer_size |-> 0]
  /\ m_is_index_loaded = Constructed(m_ibuf, m_obuf).m_is_index_loaded
  /\ m_load_count = Constructed(m_ibuf, m_obuf).m_load_count
  /\ m_ibuf_next = Constructed(m_ibuf, m_obuf).m_ibuf_next
  /\ m_obuf_next = Constructed(m_ibuf, m_obuf).m_obuf_next
  /\ m_obuf_bottom = Constructed(m_ibuf, m_obuf).m_obuf_bottom
  /\ op = "construct" /\ status = "none" /\ ret = "none"
  /\ fed = <<>> /\ dest_out = <<>> /\ dest_count = 0
  /\ invoked = <<>> /\ events = actions(size)
  /\ from_idle = TRUE /\ max_store = -1 /\ max_read = -1
  /\ max_write = -1
  /\ req = <<>> /\ packet = <<>> /\ packet_status = "none" /\ drained = <<>>
  /\ twin = "none"
  /\ codec = "none"
  /\ heap = FreeStore([resident |-> 0], events)

\* What a call of the plain dispatcher leaves: r is what the call did.  No
\* call is made once the program has faulted.
SetCall(name, r, stream) ==
  /\ status # "fault"
  /\ op' = name /\ status' = "none" /\ ret' = r.ret
  /\ fed' = stream /\ dest_out' = r.out /\ dest_count' = Len(r.out)
  /\ invoked' = r.invoked /\ events' = r.events
  /\ heap' = FreeStore(heap, r.events)
  /\ UNCHANGED <<params, object, history, twin, codec, from_idle,
                 max_store,
                 max_read, max_write>>

Dispatch ==
  \E stream \in AllStreams :
    LET r == IF lib = "upd" THEN dispatch(stream) ELSE dispatcher_impl(stream)
    IN /\ r.done /\ r.n = Len(stream)
       /\ SetCall("dispatch", r, stream)
       /\ UNCHANGED replaced

GetIndex ==
  \E stream \in AllStreams :
    LET g == IF lib = "upd" THEN get_index_from(stream)
             ELSE k2o_get_index(stream)
    IN /\ g.done /\ g.n = Len(stream)
       /\ SetCall("get_index",
                  [ret |-> g.index, out |-> <<>>, invoked |-> <<>>,
                   events |-> Repeat("src", g.n)], stream)
       /\ UNCHANGED replaced

\* k2o: get_order builds its result from a reference to an order, which
\* orders[index] is only when the orders own their functors.
GetAction ==
  \E stream \in AllStreams :
    LET g == IF lib = "upd" THEN get_action(stream) ELSE get_order(stream)
    IN /\ lib = "k2o" => features = "ANY"
       /\ g.done /\ g.n = Len(stream)
       /\ SetCall("get_action",
                  [ret |-> g.ret, out |-> <<>>, invoked |-> <<>>,
                   events |-> Repeat("src", g.n)], stream)
       /\ UNCHANGED replaced

\* upd::dispatcher::replace<Index>(ftor), written with any Index up to size
\* and any functor: ret keeps the arguments and the table before the call.
ReplaceAny ==
  \E Index \in (0..MaxReplaceIndex) \cup {size} : \E ftor \in Functors :
    /\ lib = "upd"
    /\ replaced' = replace(Index, ftor)
    /\ SetCall("replace",
               [ret |-> [Index |-> Index, ftor |-> ftor, before |-> replaced],
                out |-> <<>>, invoked |-> <<>>,
                events |-> IF Index < size
                              /\ Signature(kr, ftor.sig) = Signature(kr, Index)
                           THEN action_assign(features) ELSE <<>>], <<>>)

NextDispatcher == Dispatch \/ GetIndex \/ GetAction \/ ReplaceAny

SpecDispatcher == InitDispatcher /\ [][NextDispatcher]_vars

(* --------------- the k2o dispatcher and its run-time replace ----------- *)

\* The table with the order at index i rebuilt from ftor.
orders_with(i, ftor) ==
  {pair \in replaced : pair[1] # i}
    \cup (IF ftor = Functor(i, "keyring") THEN {} ELSE {<<i, ftor>>})

\* k2o::dispatcher::replace(index, ftor): m_impl.orders[index] = order made
\* from ftor, with no test of index nor of the signature of ftor.  For
\* index < N the order is rebuilt and the call returns.  For index = N the
\* order is built, then move-assigned over what follows orders[N] in
\* dispatcher_impl, the reference read_index: the assignment deletes the
\* address of a function as if it were the model of an order and the
\* program faults, the call not returning and the block of the new order
\* not released.
k2o_replace(index, ftor) ==
  IF index < size
  THEN [orders |-> orders_with(index, ftor), returned |-> TRUE,
        events |-> action_assign(features)]
  ELSE [orders |-> replaced, returned |-> FALSE,
        events |-> action_construct(features)]

InitOrders ==
  /\ InitDispatcher
  /\ lib = "k2o"

\* replace(index, ftor) with any index up to N and any functor: ret keeps
\* the arguments and the table before the call; status is "fault" once the
\* call has faulted: the program has stopped.
ReplaceOrder ==
  \E index \in (0..MaxReplaceIndex) \cup {size} : \E ftor \in Functors :
    LET r == k2o_replace(index, ftor) IN
    /\ status # "fault"
    /\ replaced' = r.orders
    /\ op' = "replace" /\ status' = IF r.returned THEN "none" ELSE "fault"
    /\ ret' = [Index |-> index, ftor |-> ftor, before |-> replaced]
    /\ fed' = <<>> /\ dest_out' = <<>> /\ dest_count' = 0
    /\ invoked' = <<>> /\ events' = r.events
    /\ heap' = FreeStore(heap, r.events)
    /\ UNCHANGED <<params, object, history, twin, codec, from_idle,
                   max_store, max_read, max_write>>

NextOrders == Dispatch \/ GetIndex \/ GetAction \/ ReplaceOrder

SpecOrders == InitOrders /\ [][NextOrders]_vars

(* ------------- one buffer and two buffers, the same calls ------------- *)

\* Two dispatchers of the same keyring receive the same put and get calls:
\* a single_buffered_undispatcher, called first, and a
\* double_buffered_undispatcher, called second.  cfg is the class of the
\* dispatcher the object variables hold, the one to be called next; twin
\* holds the other one, with what its last call returned.  The caller keeps
\* to the condition the single buffer is used under: no put while the
\* single-buffered dispatcher is loaded.

TwinOf(self, st, byte) == [self |-> self, status |-> st, ret |-> byte]

\* Both dispatchers after construction; their arrays are not initialised.
InitRefinement ==
  /\ kr \in Keyrings
  /\ endianess \in {"LITTLE", "BIG"}
  /\ cfg = "single"
  /\ lib = "upd" /\ features = "WEAK_REFERENCE"
  /\ replaced = {}
  /\ m_ibuf \in [1..buffer_size -> Byte]
  /\ m_obuf = <<>>
  /\ m_is_index_loaded = Constructed(m_ibuf, m_obuf).m_is_index_loaded
  /\ m_load_count = Constructed(m_ibuf, m_obuf).m_load_count
  /\ m_ibuf_next = Constructed(m_ibuf, m_obuf).m_ibuf_next
  /\ m_obuf_next = Constructed(m_ibuf, m_obuf).m_obuf_next
  /\ m_obuf_bottom = Constructed(m_ibuf, m_obuf).m_obuf_bottom
  /\ twin \in {TwinOf(Constructed(ibuf, obuf), "none", "none") :
                 ibuf \in [1..input_buffer_size -> Byte],
                 obuf \in [1..output_buffer_size -> Byte]}
  /\ codec = "none"
  /\ heap = "none"
  /\ op = "construct" /\ status = "none" /\ ret = "none"
  /\ fed = <<>> /\ dest_out = <<>> /\ dest_count = 0
  /\ invoked = <<>> /\ events = <<>>
  /\ from_idle = TRUE /\ max_store = -1 /\ max_read = -1
  /\ max_write = -1
  /\ req = <<>> /\ packet = <<>> /\ packet_status = "none" /\ drained = <<>>

\* The dispatcher just called steps aside with what it returned, and the
\* other one takes its place.  The history kept is that of the
\* single-buffered dispatcher.
Swap(self, st, byte) ==
  /\ SetObject(twin.self)
  /\ twin' = TwinOf(self, st, byte)
  /\ cfg' = IF cfg = "single" THEN "double" ELSE "single"
  /\ UNCHANGED <<kr, endianess, lib, features, replaced, codec, heap,
                 dest_out, dest_count, invoked, events, from_idle, max_read,
                 max_write>>

\* put(byte) on the single-buffered dispatcher, which is not loaded.
PutSingle ==
  \E byte \in Byte :
    LET r == put(This, byte) IN
    /\ cfg = "single" /\ ~is_loaded(This)
    /\ Swap(r.self, r.status, "none")
    /\ SetHistory(Feed(History, <<byte>>), <<>>)
    /\ op' = "put" /\ fed' = <<byte>>
    /\ UNCHANGED <<status, ret>>

\* The same put(byte) on the double-buffered dispatcher.
PutDouble ==
  LET r == put(This, fed[1]) IN
  /\ cfg = "double" /\ op = "put"
  /\ Swap(r.self, r.status, "none")
  /\ status' = twin.status /\ ret' = twin.ret
  /\ UNCHANGED <<op, fed, history, max_store>>

\* get() on the single-buffered dispatcher.
GetSingle ==
  LET g == get(This) IN
  /\ cfg = "single"
  /\ Swap(g.self, "none", g.byte)
  /\ SetHistory(History, IF g.read THEN <<g.byte>> ELSE <<>>)
  /\ op' = "get" /\ fed' = <<>>
  /\ UNCHANGED <<status, ret>>

\* The same get() on the double-buffered dispatcher.
GetDouble ==
  LET g == get(This) IN
  /\ cfg = "double" /\ op = "get"
  /\ Swap(g.self, "none", g.byte)
  /\ status' = twin.status /\ ret' = twin.ret
  /\ UNCHANGED <<op, fed, history, max_store>>

NextRefinement == PutSingle \/ PutDouble \/ GetSingle \/ GetDouble

SpecRefinement == InitRefinement /\ [][NextRefinement]_vars

(* -------------------- k2o::buffered_dispatcher ------------------------ *)

\* The object has the fields of upd::buffered_undispatcher; its cursors are
\* iterators into two arrays of the caller, modelled by their offsets, and
\* its dispatcher holds orders that own their functors (input_size() is
\* asked of them).  m_ibuf has room for the longest request and m_obuf for
\* the longest response.

LargestOutput(k) ==
  MaxOf([i \in 1..KeyringSize(k) |-> Signature(k, i - 1).return_type_size])

\* What m_dispatcher[index].input_size() yields when index is past the
\* table, where the behaviour is undefined: a fault (-1) or any size.
UndefinedOutcomes == (-1)..MaxUndefinedSize

\* The putter read hands to the order, *m_obuf_bottom++ = byte, called with
\* the bytes of out in turn while m_obuf_bottom starts at the offset bottom:
\* the output array, the cursor, and the largest offset stored at (-1 if
\* none).  A store past the array lands in memory the model does not hold.
PutThroughIterator(obuf, bottom, out) ==
  [m_obuf |-> [i \in 1..Len(obuf) |->
                 IF i > bottom /\ i <= bottom + Len(out)
                 THEN out[i - bottom] ELSE obuf[i]],
   m_obuf_bottom |-> bottom + Len(out),
   max_write |-> IF out = <<>> THEN -1 ELSE bottom + Len(out) - 1]

\* Where the caller's two arrays lie, which decides what a store past the
\* end of the input array does (undefined behaviour): "apart", the bytes
\* after the input array are unused; "adjacent", the output array follows
\* the input array at once, as two members of one struct do.
Layouts == {"apart", "adjacent"}

\* *m_ibuf_next++ = byte: into the input array while the iterator is inside
\* it; past its end the byte lands in unused memory or, the arrays being
\* adjacent, in the output array at the distance the iterator has gone past
\* (beyond the output array too, in memory the model does not hold).
StoreThroughIterator(self, byte, layout) ==
  LET past == self.m_ibuf_next - Len(self.m_ibuf) IN
  [self EXCEPT
     !.m_ibuf = IF past < 0
                THEN [@ EXCEPT ![self.m_ibuf_next + 1] = byte] ELSE @,
     !.m_obuf = IF past >= 0 /\ layout = "adjacent" /\ past < Len(@)
                THEN [@ EXCEPT ![past + 1] = byte] ELSE @,
     !.m_ibuf_next = @ + 1]

\* read() as it would be if it rewound m_obuf_bottom alone before the order
\* runs, m_obuf_next staying where write left it.
read_keeping_obuf_next(self, byte, undefined, layout) ==
  LET stored == [StoreThroughIterator(self, byte, layout)
                  EXCEPT !.m_load_count = Decrement(@)]
      index == k2o_get_index(stored.m_ibuf).index
      reset == ResetInput(stored)
  IN
  IF stored.m_load_count # 0
  THEN [self |-> stored, invoked |-> <<>>, subscripts |-> <<>>,
        fault |-> FALSE, max_write |-> -1]
  ELSE IF stored.m_is_index_loaded
  THEN IF index >= size
       THEN [self |-> reset, invoked |-> <<>>, subscripts |-> <<>>,
             fault |-> FALSE, max_write |-> -1]
       ELSE LET r == call(m_dispatcher(index), stored.m_ibuf,
                          sizeof_index_t)
                written == PutThroughIterator(reset.m_obuf, 0, r.out)
            IN [self |-> [reset EXCEPT !.m_obuf_bottom = written.m_obuf_bottom,
                                       !.m_obuf = written.m_obuf],
                invoked |-> <<index>>, subscripts |-> <<index>>,
                fault |-> FALSE, max_write |-> written.max_write]
  ELSE IF index < size
  THEN [self |-> [stored EXCEPT
                    !.m_is_index_loaded = TRUE,
                    !.m_load_count = m_dispatcher(index).input_size],
        invoked |-> <<>>, subscripts |-> <<index>>, fault |-> FALSE,
        max_write |-> -1]
  ELSE IF undefined < 0
  THEN [self |-> [stored EXCEPT !.m_is_index_loaded = TRUE],
        invoked |-> <<>>, subscripts |-> <<index>>, fault |-> TRUE,
        max_write |-> -1]
  ELSE [self |-> [stored EXCEPT !.m_is_index_loaded = TRUE,
                                !.m_load_count = undefined],
        invoked |-> <<>>, subscripts |-> <<index>>, fault |-> FALSE,
        max_write |-> -1]

\* read() as it would be without the two assignments that rewind the
\* output cursors before the order runs: the order's bytes are stored
\* after those of the response before.
read_appending_response(self, byte, undefined, layout) ==
  LET stored == [StoreThroughIterator(self, byte, layout)
                  EXCEPT !.m_load_count = Decrement(@)]
      index == k2o_get_index(stored.m_ibuf).index
      reset == ResetInput(stored)
  IN
  IF stored.m_load_count # 0
  THEN [self |-> stored, invoked |-> <<>>, subscripts |-> <<>>,
        fault |-> FALSE, max_write |-> -1]
  ELSE IF stored.m_is_index_loaded
  THEN IF index >= size
       THEN [self |-> reset, invoked |-> <<>>, subscripts |-> <<>>,
             fault |-> FALSE, max_write |-> -1]
       ELSE LET r == call(m_dispatcher(index), stored.m_ibuf,
                          sizeof_index_t)
                written == PutThroughIterator(reset.m_obuf, stored.m_obuf_bottom, r.out)
            IN [self |-> [reset EXCEPT !.m_obuf_bottom = written.m_obuf_bottom,
                                       !.m_obuf = written.m_obuf],
                invoked |-> <<index>>, subscripts |-> <<index>>,
                fault |-> FALSE, max_write |-> written.max_write]
  ELSE IF index < size
  THEN [self |-> [stored EXCEPT
                    !.m_is_index_loaded = TRUE,
                    !.m_load_count = m_dispatcher(index).input_size],
        invoked |-> <<>>, subscripts |-> <<index>>, fault |-> FALSE,
        max_write |-> -1]
  ELSE IF undefined < 0
  THEN [self |-> [stored EXCEPT !.m_is_index_loaded = TRUE],
        invoked |-> <<>>, subscripts |-> <<index>>, fault |-> TRUE,
        max_write |-> -1]
  ELSE [self |-> [stored EXCEPT !.m_is_index_loaded = TRUE,
                                !.m_load_count = undefined],
        invoked |-> <<>>, subscripts |-> <<index>>, fault |-> FALSE,
        max_write |-> -1]

\* k2o::buffered_dispatcher::read(src_ftor), byte being what src_ftor
\* yields: the new object, the orders invoked, the indices m_dispatcher was
\* subscripted with, whether the call faulted, and the largest offset of
\* the output array the order's putter stored at.  undefined is what the
\* subscript past the table yields and layout where a store past the input
\* array lands.
read(self, byte, undefined, layout) ==
  LET stored == [StoreThroughIterator(self, byte, layout)
                  EXCEPT !.m_load_count = Decrement(@)]
      index == k2o_get_index(stored.m_ibuf).index
      reset == ResetInput(stored)
  IN
  IF stored.m_load_count # 0
  THEN [self |-> stored, invoked |-> <<>>, subscripts |-> <<>>,
        fault |-> FALSE, max_write |-> -1]
  ELSE IF stored.m_is_index_loaded
  THEN IF index >= size
       THEN [self |-> reset, invoked |-> <<>>, subscripts |-> <<>>,
             fault |-> FALSE, max_write |-> -1]
       ELSE LET r == call(m_dispatcher(index), stored.m_ibuf,
                          sizeof_index_t)
                written == PutThroughIterator(reset.m_obuf, 0, r.out)
            IN [self |-> [reset EXCEPT !.m_obuf_next = 0,
                                       !.m_obuf_bottom = written.m_obuf_bottom,
                                       !.m_obuf = written.m_obuf],
                invoked |-> <<index>>, subscripts |-> <<index>>,
                fault |-> FALSE, max_write |-> written.max_write]
  ELSE IF index < size
  THEN [self |-> [stored EXCEPT
                    !.m_is_index_loaded = TRUE,
                    !.m_load_count = m_dispatcher(index).input_size],
        invoked |-> <<>>, subscripts |-> <<index>>, fault |-> FALSE,
        max_write |-> -1]
  ELSE IF undefined < 0
  THEN [self |-> [stored EXCEPT !.m_is_index_loaded = TRUE],
        invoked |-> <<>>, subscripts |-> <<index>>, fault |-> TRUE,
        max_write |-> -1]
  ELSE [self |-> [stored EXCEPT !.m_is_index_loaded = TRUE,
                                !.m_load_count = undefined],
        invoked |-> <<>>, subscripts |-> <<index>>, fault |-> FALSE,
        max_write |-> -1]

\* read_all(src_ftor), src_ftor yielding the bytes of stream from the n-th
\* on: read while the index is not loaded, then read while it is.  done is
\* FALSE when the stream ran out before read_all returned.
RECURSIVE read_all_loop(_, _, _, _, _, _, _)
read_all_loop(self, stream, n, undefined, layout, second, acc) ==
  IF second /\ ~self.m_is_index_loaded
  THEN [self |-> self, n |-> n, done |-> TRUE, invoked |-> acc.invoked,
        subscripts |-> acc.subscripts, fault |-> FALSE,
        max_write |-> acc.max_write]
  ELSE IF n >= Len(stream)
  THEN [self |-> self, n |-> n, done |-> FALSE, invoked |-> acc.invoked,
        subscripts |-> acc.subscripts, fault |-> FALSE,
        max_write |-> acc.max_write]
  ELSE LET r == read(self, stream[n + 1], undefined, layout)
           now == [invoked |-> acc.invoked \o r.invoked,
                   subscripts |-> acc.subscripts \o r.subscripts,
                   max_write |-> IF r.max_write > acc.max_write
                                 THEN r.max_write ELSE acc.max_write]
       IN IF r.fault
          THEN [self |-> r.self, n |-> n + 1, done |-> TRUE,
                invoked |-> now.invoked, subscripts |-> now.subscripts,
                fault |-> TRUE, max_write |-> now.max_write]
          ELSE read_all_loop(r.self, stream, n + 1, undefined, layout,
                             second \/ r.self.m_is_index_loaded, now)

read_all(self, stream, undefined, layout) ==
  read_all_loop(self, stream, 0, undefined, layout,
                self.m_is_index_loaded,
                [invoked |-> <<>>, subscripts |-> <<>>, max_write |-> -1])

\* write(dest_ftor): one byte of the output array handed over, if any.
write(self) ==
  IF is_loaded(self)
  THEN [self |-> [self EXCEPT !.m_obuf_next = @ + 1],
        out |-> <<self.m_obuf[self.m_obuf_next + 1]>>]
  ELSE [self |-> self, out |-> <<>>]

\* write_all() as it would be with an if in place of its while: one byte
\* handed over at most.
write_all_once(self) == write(self)

\* write_all(dest_ftor)
RECURSIVE write_all(_)
write_all(self) ==
  IF is_loaded(self)
  THEN LET w == write(self)
           rest == write_all(w.self)
       IN [self |-> rest.self, out |-> w.out \o rest.out]
  ELSE [self |-> self, out |-> <<>>]

\* buffered_dispatcher(Keyring, input_it, output_it): the arrays are the
\* caller's, filled with one byte of its choice.
InitBuffered ==
  /\ kr \in Keyrings
  /\ endianess \in {"LITTLE", "BIG"}
  /\ lib = "k2o" /\ features = "ANY" /\ cfg = "double"
  /\ replaced = {}
  /\ \E b \in Byte :
       /\ m_ibuf = [i \in 1..NeededSizes[kr].input |-> b]
       /\ m_obuf = [i \in 1..LargestOutput(kr) |-> b]
  /\ m_is_index_loaded = Constructed(m_ibuf, m_obuf).m_is_index_loaded
  /\ m_load_count = Constructed(m_ibuf, m_obuf).m_load_count
  /\ m_ibuf_next = Constructed(m_ibuf, m_obuf).m_ibuf_next
  /\ m_obuf_next = Constructed(m_ibuf, m_obuf).m_obuf_next
  /\ m_obuf_bottom = Constructed(m_ibuf, m_obuf).m_obuf_bottom
  /\ op = "construct" /\ status = "none" /\ ret = "none"
  /\ fed = <<>> /\ dest_out = <<>> /\ dest_count = 0
  /\ invoked = <<>> /\ events = <<>>
  /\ from_idle = TRUE /\ max_store = -1 /\ max_read = -1
  /\ max_write = -1
  /\ req = <<>> /\ packet = <<>> /\ packet_status = "none" /\ drained = <<>>
  /\ twin = "none"
  /\ codec = "none"
  /\ heap = "none"

\* The request the order last invoked was given: the index bytes and the
\* argument bytes, which the input array still holds when read returns.
Request(self, orders) ==
  Take(self.m_ibuf,
       sizeof_index_t + m_dispatcher(orders[Len(orders)]).input_size)

\* What a call of the buffered dispatcher leaves.  status is "fault" once
\* a call has faulted: the program has stopped.  ret lists the indices
\* m_dispatcher was subscripted with.  packet is the request of the order
\* that ran last and drained the bytes write has handed over since; events
\* has one "discard" for each byte of the output array that was still to be
\* handed over when the call reset the output cursors; max_store is the
\* largest offset from the start of the input array a byte was stored at
\* (the input cursor goes back to the start only in the last read of a
\* call); max_read is the largest offset of the output array write read
\* at and max_write the largest the order's putter stored at.
SetBuffered(name, self, bytes, r, out) ==
  /\ SetObject(self)
  /\ op' = name /\ fed' = bytes
  /\ status' = IF r.fault THEN "fault" ELSE "none"
  /\ ret' = r.subscripts /\ invoked' = r.invoked
  /\ dest_out' = out /\ dest_count' = Len(out)
  /\ from_idle' = Idle(This)
  /\ packet' = IF r.invoked # <<>> THEN Request(self, r.invoked) ELSE packet
  /\ packet_status' = IF r.invoked # <<>> THEN "RESOLVED_PACKET"
                      ELSE packet_status
  /\ drained' = IF r.invoked # <<>> THEN <<>> ELSE drained \o out
  /\ events' = IF r.invoked # <<>>
               THEN Repeat("discard", m_obuf_bottom - m_obuf_next)
               ELSE <<>>
  /\ max_store' = IF bytes # <<>> /\ m_ibuf_next + Len(bytes) - 1 > max_store
                  THEN m_ibuf_next + Len(bytes) - 1 ELSE max_store
  /\ max_read' = MaxRead(This, out)
  /\ max_write' = r.max_write
  /\ UNCHANGED <<params, replaced, twin, codec, heap, req>>

\* The bytes a getter may yield to read: those of Byte, and the low byte
\* of the last index of the table.
ReadByte == Byte \cup {(size - 1) % 256}

Read ==
  \E byte \in ReadByte : \E undefined \in UndefinedOutcomes :
  \E layout \in Layouts :
    LET r == read(This, byte, undefined, layout) IN
    /\ status # "fault"
    /\ m_ibuf_next < Len(m_ibuf) + MaxOverrun
    /\ SetBuffered("read", r.self, <<byte>>, r, <<>>)

\* The byte streams a getter may yield to read_all: MaxStream bytes at most.
ByteStreams == UNION {[1..len -> Byte] : len \in 1..MaxStream}

ReadAll ==
  \E stream \in ByteStreams : \E undefined \in UndefinedOutcomes :
  \E layout \in Layouts :
    LET r == read_all(This, stream, undefined, layout) IN
    /\ status # "fault"
    /\ m_ibuf_next + Len(stream) <= Len(m_ibuf) + MaxOverrun
    /\ r.done /\ r.n = Len(stream)
    /\ SetBuffered("read_all", r.self, stream, r, <<>>)

Write ==
  LET w == write(This) IN
  /\ status # "fault"
  /\ SetBuffered("write", w.self, <<>>,
                 [subscripts |-> <<>>, invoked |-> <<>>, fault |-> FALSE,
                  max_write |-> -1],
                 w.out)

WriteAll ==
  LET w == write_all(This) IN
  /\ status # "fault"
  /\ SetBuffered("write_all", w.self, <<>>,
                 [subscripts |-> <<>>, invoked |-> <<>>, fault |-> FALSE,
                  max_write |-> -1],
                 w.out)

NextBuffered == Read \/ ReadAll \/ Write \/ WriteAll

SpecBuffered == InitBuffered /\ [][NextBuffered]_vars

(* ------------- the buffered dispatcher of either library -------------- *)

\* One buffered dispatcher, of either library: an
\* upd::buffered_undispatcher constructed as in Init and given the calls
\* of Next, or a k2o::buffered_dispatcher constructed as in InitBuffered
\* and given the calls of NextBuffered.
InitEither == Init \/ InitBuffered

NextEither ==
  \/ lib = "upd" /\ Next
  \/ lib = "k2o" /\ NextBuffered

SpecEither == InitEither /\ [][NextEither]_vars

(* ------------------- serialization of a single value ------------------ *)

\* The integer types T a value is serialized as: sizeof(T), and whether T
\* is signed.  They are uint8_t, int8_t, uint16_t and int16_t.
IntegerSizes == {1, 2}

IntegerTypes == [size : IntegerSizes, signed : BOOLEAN]

\* numeric_limits<T>::min() and numeric_limits<T>::max()
MinOf(T) == IF T.signed THEN -(Pow256(T.size) \div 2) ELSE 0

MaxOfType(T) ==
  IF T.signed THEN Pow256(T.size) \div 2 - 1 ELSE Pow256(T.size) - 1

\* The values of T the model serializes: those at most MaxNear away from
\* zero, from an end of T, or from a value where a bit or an octet more
\* gets used.
Landmarks(T) ==
  {MinOf(T), 0, MaxOfType(T)}
    \cup {s * Pow256(k) : s \in {-1, 1}, k \in 1..T.size}
    \cup {s * (Pow256(k) \div 2) : s \in {-1, 1}, k \in 1..T.size}

Values(T) ==
  {x \in UNION {(l - MaxNear)..(l + MaxNear) : l \in Landmarks(T)} :
     MinOf(T) <= x /\ x <= MaxOfType(T)}

\* sizeof(unsigned long long), the type of the intermediate value a signed
\* integer goes through
sizeof_unsigned_long_long == 8

\* An unsigned long long is held as its octets, the least significant
\* first.  ull(x) is the one of value x >= 0, Inverse(v) is ~v, and
\* Low(v, n) is the value of the n low octets of v: what n rounds of
\* "x & 0xff, x >>= 8" see of it.
ull(x) == write_with_endianess(x, sizeof_unsigned_long_long, "LITTLE")

Inverse(v) == [k \in 1..Len(v) |-> 255 - v[k]]

Low(v, n) == interpret_with_endianess(v, 0, n, "LITTLE")

\* detail::interpret_to_two_complement(x): x modulo 2^64.
interpret_to_two_complement(x) ==
  IF x >= 0 THEN ull(x) ELSE Inverse(ull(-x - 1))

\* detail::interpret_to_one_complement(x): x if it is not negative, the
\* bitwise inverse of its absolute value if it is.
interpret_to_one_complement(x) ==
  IF x >= 0 THEN ull(x) ELSE Inverse(ull(-x))

\* detail::interpret_from_two_complement<T>(value), value being below
\* 2^(8 * sizeof(T)).
interpret_from_two_complement(T, value) ==
  IF value >= Pow256(T.size) \div 2 THEN value - Pow256(T.size) ELSE value

\* detail::interpret_from_one_complement<T>(value): with the sign bit set,
\* minus the bitwise inverse of the sizeof(T) low octets.
interpret_from_one_complement(T, value) ==
  IF value >= Pow256(T.size) \div 2
  THEN -(Pow256(T.size) - 1 - value)
  ELSE value

\* detail::to_signed_mode<Signed_Mode>(x)
to_signed_mode(Signed_Mode, x) ==
  IF Signed_Mode = "ONE_COMPLEMENT"
  THEN interpret_to_one_complement(x)
  ELSE interpret_to_two_complement(x)

\* detail::from_signed_mode<T, Signed_Mode>(value)
from_signed_mode(T, Signed_Mode, value) ==
  IF Signed_Mode = "ONE_COMPLEMENT"
  THEN interpret_from_one_complement(T, value)
  ELSE interpret_from_two_complement(T, value)

\* detail::to_endianess<Endianess>(sequence, x, n): the n bytes it writes
to_endianess(Endianess, x, n) == write_with_endianess(x, n, Endianess)

\* detail::from_endianess<T, Endianess>(sequence, n)
from_endianess(Endianess, sequence, n) ==
  interpret_with_endianess(sequence, 0, n, Endianess)

\* write_as<Endianess, Signed_Mode>(x, sequence) for x of the integer type
\* T: the bytes it writes from sequence on.
write_as(Endianess, Signed_Mode, T, x) ==
  IF ~T.signed
  THEN to_endianess(Endianess, x, T.size)
  ELSE LET tmp == to_signed_mode(Signed_Mode, x)
       IN to_endianess(Endianess, Low(tmp, T.size), T.size)

\* read_as<T, Endianess, Signed_Mode>(sequence)
read_as(T, Endianess, Signed_Mode, sequence) ==
  IF ~T.signed
  THEN from_endianess(Endianess, sequence, T.size)
  ELSE LET tmp == from_endianess(Endianess, sequence, T.size)
       IN from_signed_mode(T, Signed_Mode, tmp)

\* The array raw with bytes stored from the offset on.
Store(raw, offset, bytes) ==
  [i \in 1..Len(raw) |->
     IF offset < i /\ i <= offset + Len(bytes)
     THEN bytes[i - offset]
     ELSE raw[i]]

\* unaligned_data<N>(raw_data, data_endianess, data_signed_mode)
unaligned_data(raw_data, data_endianess, data_signed_mode) ==
  [m_raw_data |-> raw_data,
   m_endianess |-> data_endianess,
   m_signed_mode |-> data_signed_mode]

\* unaligned_data::write(x, offset) that stores a signed x as its two's
\* complement whatever m_signed_mode is.
write_in_two_complement_only(self, T, x, offset) ==
  LET tmp == IF ~T.signed THEN x
             ELSE Low(interpret_to_two_complement(x), T.size)
  IN [self EXCEPT !.m_raw_data =
        Store(@, offset, write_with_endianess(tmp, T.size, self.m_endianess))]

\* unaligned_data::write(x, offset) for x of the integer type T
unaligned_data_write(self, T, x, offset) ==
  LET tmp == IF ~T.signed THEN x
             ELSE IF self.m_signed_mode = "ONE_COMPLEMENT"
                  THEN Low(interpret_to_one_complement(x), T.size)
                  ELSE Low(interpret_to_two_complement(x), T.size)
  IN [self EXCEPT !.m_raw_data =
        Store(@, offset, write_with_endianess(tmp, T.size, self.m_endianess))]

\* unaligned_data::interpret_as<T>(offset)
interpret_as(self, T, offset) ==
  LET tmp == interpret_with_endianess(self.m_raw_data, offset, T.size,
                                      self.m_endianess)
  IN IF ~T.signed THEN tmp
     ELSE IF self.m_signed_mode = "ONE_COMPLEMENT"
          THEN interpret_from_one_complement(T, tmp)
          ELSE interpret_from_two_complement(T, tmp)

\* The storage is an unaligned_data<N>, N leaving room for the widest type
\* at the largest offset.
N == (CHOOSE s \in IntegerSizes : \A t \in IntegerSizes : t <= s)
       + MaxOffset

\* An unaligned_data constructed from a buffer the caller filled with one
\* byte.  Nothing has been written or read.
InitCodec ==
  /\ \E b \in Byte : \E e \in {"LITTLE", "BIG"} :
       \E m \in {"ONE_COMPLEMENT", "TWO_COMPLEMENT"} :
         codec = [self |-> unaligned_data([i \in 1..N |-> b], e, m),
                  op |-> "construct",
                  T |-> "none", x |-> "none", offset |-> "none",
                  before |-> "none", asked |-> "none", at |-> "none", value |-> "none"]
  /\ kr = 1 /\ endianess = codec.self.m_endianess
  /\ lib = "upd" /\ features = "ANY" /\ cfg = "double"
  /\ replaced = {}
  /\ m_ibuf = <<>> /\ m_obuf = <<>>
  /\ m_is_index_loaded = FALSE /\ m_load_count = 0
  /\ m_ibuf_next = 0 /\ m_obuf_next = 0 /\ m_obuf_bottom = 0
  /\ op = "none" /\ status = "none" /\ ret = "none"
  /\ fed = <<>> /\ dest_out = <<>> /\ dest_count = 0
  /\ invoked = <<>> /\ events = <<>>
  /\ from_idle = TRUE /\ max_store = -1 /\ max_read = -1
  /\ max_write = -1
  /\ req = <<>> /\ packet = <<>> /\ packet_status = "none" /\ drained = <<>>
  /\ twin = "none"
  /\ heap = "none"

Offsets == 0..MaxOffset

\* What a write of x as a T at the offset leaves, self being the storage
\* afterwards; before is the content it had.
SetWritten(name, self, T, x, offset) ==
  /\ codec' = [codec EXCEPT !.self = self, !.op = name,
                            !.T = T, !.x = x, !.offset = offset,
                            !.before = codec.self.m_raw_data]
  /\ UNCHANGED <<params, replaced, object, last_call, history, twin, heap>>

\* What a read of a T at the offset leaves, value being what it returned.
SetRead(name, T, offset, value) ==
  /\ codec' = [codec EXCEPT !.op = name, !.asked = T, !.at = offset,
                            !.value = value]
  /\ UNCHANGED <<params, replaced, object, last_call, history, twin, heap>>

\* storage.write(x, offset)
UnalignedWrite ==
  \E T \in IntegerTypes : \E x \in Values(T) : \E offset \in Offsets :
    /\ codec.op = "construct"
    /\ SetWritten("write", unaligned_data_write(codec.self, T, x, offset),
                  T, x, offset)

\* write_as<Endianess, Signed_Mode>(x, sequence), sequence pointing to the
\* byte of the storage at the offset, with the byte order and the signed
\* mode of the storage
WriteAs ==
  \E T \in IntegerTypes : \E x \in Values(T) : \E offset \in Offsets :
    LET bytes == write_as(codec.self.m_endianess, codec.self.m_signed_mode,
                          T, x)
    IN /\ codec.op = "construct"
       /\ SetWritten("write_as",
                     [codec.self EXCEPT !.m_raw_data =
                        Store(@, offset, bytes)],
                     T, x, offset)

\* storage.interpret_as<T>(offset)
InterpretAs ==
  \E T \in IntegerTypes : \E offset \in Offsets :
    /\ codec.op = "write"
    /\ SetRead("interpret_as", T, offset,
               interpret_as(codec.self, T, offset))

\* read_as<T, Endianess, Signed_Mode>(sequence), sequence pointing to the
\* byte of the storage at the offset
ReadAs ==
  \E T \in IntegerTypes : \E offset \in Offsets :
    /\ codec.op = "write_as"
    /\ SetRead("read_as", T, offset,
               read_as(T, codec.self.m_endianess, codec.self.m_signed_mode,
                       Drop(codec.self.m_raw_data, offset)))

NextCodec == UnalignedWrite \/ WriteAs \/ InterpretAs \/ ReadAs

SpecCodec == InitCodec /\ [][NextCodec]_vars

(* ------------------------- arrays of integers ------------------------- *)

\* The array types E[L]: the element type and the number of elements.
ArrayTypes == [elem : IntegerTypes, len : 1..MaxLen]

IsArray(T) == "len" \in DOMAIN T

\* sizeof(T) for an integer type or an array type
sizeof(T) == IF IsArray(T) THEN T.len * T.elem.size ELSE T.size

\* The values of an integer type that elements and tuple fields take: zero,
\* the ends of the type, and the values where a bit or an octet more gets
\* used.
ElementValues(T) ==
  {x \in Landmarks(T) : MinOf(T) <= x /\ x <= MaxOfType(T)}

\* The values of a type T, an array being the sequence of its elements.
ValuesOf(T) ==
  IF IsArray(T) THEN [1..T.len -> ElementValues(T.elem)]
  ELSE ElementValues(T)

\* unaligned_data::write(array, offset) for an array type T, from its
\* element i on.
RECURSIVE write_elements(_, _, _, _, _)
write_elements(self, T, array, offset, i) ==
  IF i >= T.len THEN self
  ELSE write_elements(
         unaligned_data_write(self, T.elem, array[i + 1],
                              offset + i * T.elem.size),
         T, array, offset, i + 1)

\* unaligned_data::write(array, offset) for an array type T
unaligned_data_write_array(self, T, array, offset) ==
  write_elements(self, T, array, offset, 0)

\* unaligned_data::interpret_as<T>(offset) for an array type T: the
\* array_wrapper returned, as the sequence of its elements
interpret_as_array(self, T, offset) ==
  [i \in 1..T.len |-> interpret_as(self, T.elem, offset + (i - 1) * T.elem.size)]

\* write_as<Endianess, Signed_Mode>(array, sequence) for an array type T:
\* the bytes it writes from sequence on, element i at i * sizeof(element_t).
RECURSIVE write_as_array(_, _, _, _)
write_as_array(Endianess, Signed_Mode, T, array) ==
  IF array = <<>> THEN <<>>
  ELSE write_as(Endianess, Signed_Mode, T.elem, Head(array))
         \o write_as_array(Endianess, Signed_Mode, T, Tail(array))

\* read_as<T, Endianess, Signed_Mode>(sequence) for an array type T
read_as_array(T, Endianess, Signed_Mode, sequence) ==
  [i \in 1..T.len |->
     read_as(T.elem, Endianess, Signed_Mode,
             Drop(sequence, (i - 1) * T.elem.size))]

\* The storage the arrays are written to is an unaligned_data<NArray>, with
\* room for the largest array at the largest offset.
NArray ==
  MaxLen * (CHOOSE s \in IntegerSizes : \A t \in IntegerSizes : t <= s)
    + MaxOffset

InitArray ==
  /\ \E b \in Byte : \E e \in {"LITTLE", "BIG"} :
       \E m \in {"ONE_COMPLEMENT", "TWO_COMPLEMENT"} :
         codec = [self |-> unaligned_data([i \in 1..NArray |-> b], e, m),
                  op |-> "construct",
                  T |-> "none", x |-> "none", offset |-> "none",
                  before |-> "none", asked |-> "none",
                  at |-> "none", value |-> "none"]
  /\ kr = 1 /\ endianess = codec.self.m_endianess
  /\ lib = "upd" /\ features = "ANY" /\ cfg = "double"
  /\ replaced = {}
  /\ m_ibuf = <<>> /\ m_obuf = <<>>
  /\ m_is_index_loaded = FALSE /\ m_load_count = 0
  /\ m_ibuf_next = 0 /\ m_obuf_next = 0 /\ m_obuf_bottom = 0
  /\ op = "none" /\ status = "none" /\ ret = "none"
  /\ fed = <<>> /\ dest_out = <<>> /\ dest_count = 0
  /\ invoked = <<>> /\ events = <<>>
  /\ from_idle = TRUE /\ max_store = -1 /\ max_read = -1
  /\ max_write = -1
  /\ req = <<>> /\ packet = <<>> /\ packet_status = "none" /\ drained = <<>>
  /\ twin = "none"
  /\ heap = "none"

\* storage.write(array, offset)
ArrayWrite ==
  \E T \in ArrayTypes : \E array \in ValuesOf(T) : \E offset \in Offsets :
    /\ codec.op = "construct"
    /\ SetWritten("write",
                  unaligned_data_write_array(codec.self, T, array, offset),
                  T, array, offset)

\* write_as<Endianess, Signed_Mode>(array, storage.begin() + offset)
ArrayWriteAs ==
  \E T \in ArrayTypes : \E array \in ValuesOf(T) : \E offset \in Offsets :
    LET bytes == write_as_array(codec.self.m_endianess,
                                codec.self.m_signed_mode, T, array)
    IN /\ codec.op = "construct"
       /\ SetWritten("write_as",
                     [codec.self EXCEPT !.m_raw_data =
                        Store(@, offset, bytes)],
                     T, array, offset)

\* storage.interpret_as<T>(offset), T being the array type written
ArrayInterpretAs ==
  \E offset \in Offsets :
    /\ codec.op = "write"
    /\ SetRead("interpret_as", codec.T, offset,
               interpret_as_array(codec.self, codec.T, offset))

\* read_as<T, Endianess, Signed_Mode>(storage.begin() + offset)
ArrayReadAs ==
  \E offset \in Offsets :
    /\ codec.op = "write_as"
    /\ SetRead("read_as", codec.T, offset,
               read_as_array(codec.T, codec.self.m_endianess,
                             codec.self.m_signed_mode,
                             Drop(codec.self.m_raw_data, offset)))

NextArray == ArrayWrite \/ ArrayWriteAs \/ ArrayInterpretAs \/ ArrayReadAs

SpecArray == InitArray /\ [][NextArray]_vars

(* -------------------------------- tuple ------------------------------- *)

\* The type lists Ts... the tuples are instantiated with:
\*   tuple<uint8_t, int16_t, int8_t[2]> and tuple<uint16_t[2], int8_t>.
TupleTypes ==
  {<<[size |-> 1, signed |-> FALSE],
     [size |-> 2, signed |-> TRUE],
     [elem |-> [size |-> 1, signed |-> TRUE], len |-> 2]>>,
   <<[elem |-> [size |-> 2, signed |-> FALSE], len |-> 2],
     [size |-> 1, signed |-> TRUE]>>}

\* type_sizes: mp_list<mp_size_t<sizeof(Ts)>...>
type_sizes(Ts) == [i \in 1..Len(Ts) |-> sizeof(Ts[i])]

\* mp_fold<sizes, mp_size_t<0>, mp_plus>
RECURSIVE mp_fold_plus(_)
mp_fold_plus(sizes) ==
  IF sizes = <<>> THEN 0 ELSE Head(sizes) + mp_fold_plus(Tail(sizes))

\* tuple<Ts...>::size
tuple_size(Ts) == mp_fold_plus(type_sizes(Ts))

\* The offset get<I> and set<I> compute, I counted from 0:
\* mp_fold<mp_take_c<type_sizes, I>, mp_size_t<0>, mp_plus>
offset_of(Ts, I) == mp_fold_plus(Take(type_sizes(Ts), I))

\* m_storage.write(value, offset): the overload chosen by the type
storage_write(storage, T, value, offset) ==
  IF IsArray(T)
  THEN unaligned_data_write_array(storage, T, value, offset)
  ELSE unaligned_data_write(storage, T, value, offset)

\* m_storage.interpret_as<T>(offset): the overload chosen by the type
storage_interpret_as(storage, T, offset) ==
  IF IsArray(T)
  THEN interpret_as_array(storage, T, offset)
  ELSE interpret_as(storage, T, offset)

\* tuple<Ts...>(data_endianess, data_signed_mode): the storage content is
\* not initialized; raw is what it happens to hold.
tuple(Ts, raw, data_endianess, data_signed_mode) ==
  [Ts |-> Ts,
   m_storage |-> unaligned_data(raw, data_endianess, data_signed_mode)]

\* tuple::set<I>(value) that writes at the start of the storage
tuple_set_at_front(self, I, value) ==
  [self EXCEPT !.m_storage = storage_write(@, self.Ts[I + 1], value, 0)]

\* tuple::set<I>(value)
tuple_set(self, I, value) ==
  [self EXCEPT !.m_storage =
     storage_write(@, self.Ts[I + 1], value, offset_of(self.Ts, I))]

\* tuple::get<I>()
tuple_get(self, I) ==
  storage_interpret_as(self.m_storage, self.Ts[I + 1],
                       offset_of(self.Ts, I))

\* tuple::lay(index_sequence<Is...>, args...): set<Is>(args) for each index
\* in turn, from the index I on.
RECURSIVE tuple_lay(_, _, _)
tuple_lay(self, args, I) ==
  IF I >= Len(args) THEN self
  ELSE tuple_lay(tuple_set(self, I, args[I + 1]), args, I + 1)

\* tuple<Ts...>(data_endianess, data_signed_mode, args...)
tuple_of_values(Ts, raw, data_endianess, data_signed_mode, args) ==
  tuple_lay(tuple(Ts, raw, data_endianess, data_signed_mode), args, 0)

\* tuple::operator[](i)
tuple_subscript(self, i) == self.m_storage.m_raw_data[i + 1]

\* tuple::begin() and tuple::end() return m_storage.begin() and
\* m_storage.end(), which are unaligned_data::const_iterator objects, as
\* const byte_t*.  const_iterator does not convert to a pointer, so a
\* program that iterates over a tuple is ill-formed: there is no run of it.
tuple_begin(self) == [well_formed |-> FALSE]

\* The values args... a tuple<Ts...> is constructed from.
RECURSIVE ArgsOf(_)
ArgsOf(Ts) ==
  IF Ts = <<>> THEN {<<>>}
  ELSE {<<v>> \o rest : v \in ValuesOf(Head(Ts)), rest \in ArgsOf(Tail(Ts))}

\* A tuple just constructed, by either constructor.  The storage of
\* unaligned_data is not initialized by its constructor: its content is
\* indeterminate, any bytes.
InitTuple ==
  /\ \E Ts \in TupleTypes : \E e \in {"LITTLE", "BIG"} :
       \E m \in {"ONE_COMPLEMENT", "TWO_COMPLEMENT"} :
       \E raw \in [1..tuple_size(Ts) -> Byte] :
         \/ codec = [self |-> tuple(Ts, raw, e, m), op |-> "tuple",
                     args |-> <<>>, I |-> -1, x |-> "none",
                     before |-> <<>>, value |-> "none"]
         \/ \E args \in ArgsOf(Ts) :
              codec = [self |-> tuple_of_values(Ts, raw, e, m, args),
                       op |-> "tuple", args |-> args,
                       I |-> -1, x |-> "none", before |-> <<>>,
                       value |-> "none"]
  /\ kr = 1 /\ endianess = codec.self.m_storage.m_endianess
  /\ lib = "upd" /\ features = "ANY" /\ cfg = "double"
  /\ replaced = {}
  /\ m_ibuf = <<>> /\ m_obuf = <<>>
  /\ m_is_index_loaded = FALSE /\ m_load_count = 0
  /\ m_ibuf_next = 0 /\ m_obuf_next = 0 /\ m_obuf_bottom = 0
  /\ op = "none" /\ status = "none" /\ ret = "none"
  /\ fed = <<>> /\ dest_out = <<>> /\ dest_count = 0
  /\ invoked = <<>> /\ events = <<>>
  /\ from_idle = TRUE /\ max_store = -1 /\ max_read = -1
  /\ max_write = -1
  /\ req = <<>> /\ packet = <<>> /\ packet_status = "none" /\ drained = <<>>
  /\ twin = "none"
  /\ heap = "none"

\* The indices I of the fields of the tuple.
Fields == 0..(Len(codec.self.Ts) - 1)

\* What a call on the tuple leaves: args are the values the tuple was
\* constructed from, <<>> if from none or once a field has been set; I and
\* x are the field and the value of the last set<I>(x), I being -1 if
\* there was none; before is the storage content that set found, <<>>
\* after any other call; value is what the call returned.
SetTuple(name, self, I, x, value) ==
  /\ codec' = [codec EXCEPT !.self = self, !.op = name, !.I = I, !.x = x,
                            !.value = value,
                            !.args = IF name = "set" THEN <<>> ELSE @,
                            !.before =
                              IF name = "set"
                              THEN codec.self.m_storage.m_raw_data
                              ELSE <<>>]
  /\ UNCHANGED <<params, replaced, object, last_call, history, twin, heap>>

\* t.set<I>(x)
TupleSet ==
  \E I \in Fields : \E x \in ValuesOf(codec.self.Ts[I + 1]) :
    /\ codec.op \in {"tuple", "set"}
    /\ SetTuple("set", tuple_set(codec.self, I, x), I, x, "none")

\* t.get<J>()
TupleGet ==
  \E J \in Fields :
    /\ codec.op \in {"tuple", "set"}
    /\ SetTuple("get", codec.self, codec.I, codec.x,
                [J |-> J, returned |-> tuple_get(codec.self, J)])

\* t[0], t[1], ... t[size - 1]
TupleSubscript ==
  /\ codec.op \in {"tuple", "set"}
  /\ SetTuple("subscript", codec.self, codec.I, codec.x,
              [i \in 1..tuple_size(codec.self.Ts) |->
                 tuple_subscript(codec.self, i - 1)])

\* for (byte_t byte : t): what is collected of the bytes
TupleIterate ==
  /\ codec.op \in {"tuple", "set"}
  /\ SetTuple("iterate", codec.self, codec.I, codec.x,
              IF tuple_begin(codec.self).well_formed
              THEN [well_formed |-> TRUE,
                    bytes |-> codec.self.m_storage.m_raw_data]
              ELSE [well_formed |-> FALSE, bytes |-> <<>>])

NextTuple == TupleSet \/ TupleGet \/ TupleSubscript \/ TupleIterate

SpecTuple == InitTuple /\ [][NextTuple]_vars

(* ------------------- the codec called with an offset ------------------ *)

\* The iterators It the offset overloads are called with: those that can
\* be added an offset (sfinae::require_has_plus) and those that can only be
\* incremented (sfinae::require_has_not_plus).
Iterators == {"has_plus", "has_not_plus"}

\* write_as<Endianess, Signed_Mode>(value, begin, offset), begin being an
\* iterator to the first byte of sequence: whether the call is well-formed
\* and the sequence afterwards.  The overload for iterators with a plus
\* calls write_as<Endianess, Signed_Mode>(begin + offset), with one
\* argument, which no write_as accepts: a program that calls it is
\* ill-formed.  The other overload increments the iterator offset times,
\* then has write_as(value, it) store the sizeof(T) bytes through it.
write_as_offset(It, Endianess, Signed_Mode, T, value, sequence, offset) ==
  IF It = "has_plus"
  THEN [well_formed |-> FALSE, sequence |-> sequence]
  ELSE [well_formed |-> TRUE,
        sequence |-> Store(sequence, offset,
                           write_as(Endianess, Signed_Mode, T, value))]

\* read_as<T, Endianess, Signed_Mode>(begin, offset): the overload for
\* iterators with a plus reads at begin + offset, the other increments the
\* iterator offset times; both come to read_as on the bytes from there on.
read_as_offset(It, T, Endianess, Signed_Mode, sequence, offset) ==
  read_as(T, Endianess, Signed_Mode, Drop(sequence, offset))

\* A sequence of N bytes, filled with one byte, and the byte order and the
\* signed mode the codec is called with.
InitOffset ==
  /\ \E b \in Byte : \E e \in {"LITTLE", "BIG"} :
       \E m \in {"ONE_COMPLEMENT", "TWO_COMPLEMENT"} :
         codec = [sequence |-> [i \in 1..N |-> b],
                  Endianess |-> e, Signed_Mode |-> m,
                  op |-> "none", well_formed |-> TRUE,
                  It |-> "none", T |-> "none", x |-> "none", offset |-> -1,
                  before |-> <<>>, at |-> -1, value |-> "none"]
  /\ kr = 1 /\ endianess = codec.Endianess
  /\ lib = "upd" /\ features = "ANY" /\ cfg = "double"
  /\ replaced = {}
  /\ m_ibuf = <<>> /\ m_obuf = <<>>
  /\ m_is_index_loaded = FALSE /\ m_load_count = 0
  /\ m_ibuf_next = 0 /\ m_obuf_next = 0 /\ m_obuf_bottom = 0
  /\ op = "none" /\ status = "none" /\ ret = "none"
  /\ fed = <<>> /\ dest_out = <<>> /\ dest_count = 0
  /\ invoked = <<>> /\ events = <<>>
  /\ from_idle = TRUE /\ max_store = -1 /\ max_read = -1
  /\ max_write = -1
  /\ req = <<>> /\ packet = <<>> /\ packet_status = "none" /\ drained = <<>>
  /\ twin = "none"
  /\ heap = "none"

\* write_as<Endianess, Signed_Mode>(x, begin, offset)
WriteAsOffset ==
  \E It \in Iterators : \E T \in IntegerTypes : \E x \in Values(T) :
    \E offset \in Offsets :
      LET w == write_as_offset(It, codec.Endianess, codec.Signed_Mode, T, x,
                               codec.sequence, offset)
      IN /\ codec.op = "none"
         /\ codec' = [codec EXCEPT !.sequence = w.sequence,
                                   !.op = "write_as",
                                   !.well_formed = w.well_formed,
                                   !.It = It, !.T = T, !.x = x,
                                   !.offset = offset,
                                   !.before = codec.sequence]
         /\ UNCHANGED <<params, replaced, object, last_call, history, twin, heap>>

\* read_as<T, Endianess, Signed_Mode>(begin, offset), T being the type
\* written, in a program that is well-formed
ReadAsOffset ==
  \E It \in Iterators : \E offset \in Offsets :
    /\ codec.op = "write_as" /\ codec.well_formed
    /\ codec' = [codec EXCEPT !.op = "read_as", !.It = It, !.at = offset,
                              !.value =
                                read_as_offset(It, codec.T, codec.Endianess,
                                               codec.Signed_Mode,
                                               codec.sequence, offset)]
    /\ UNCHANGED <<params, replaced, object, last_call, history, twin, heap>>

NextOffset == WriteAsOffset \/ ReadAsOffset

SpecOffset == InitOffset /\ [][NextOffset]_vars

(* ------------------------------ claims -------------------------------- *)

\* The action a packet asks for, and the sizes of that action.
PacketIndex(p) == get_index(p)

InputSizeOf(p) == m_dispatcher(PacketIndex(p)).input_size

OutputSizeOf(p) == m_dispatcher(PacketIndex(p)).output_size

\* The response the keyring's functor gives to the request p.
Response(p) ==
  FunctorResponse(kr, PacketIndex(p), Drop(p, sizeof_index_t), endianess)

\* p is a whole request for an action of the keyring.
WholeRequest(p) ==
  /\ Len(p) >= sizeof_index_t
  /\ PacketIndex(p) < size
  /\ Len(p) = sizeof_index_t + InputSizeOf(p)

\* p is a proper, non-empty prefix of a request or of an index.
PartOfRequest(p) ==
  \/ Len(p) < sizeof_index_t
  \/ /\ PacketIndex(p) < size
     /\ Len(p) < sizeof_index_t + InputSizeOf(p)

\* C1: the put() that completes a request for an action idx < N (the call
\* returning RESOLVED_PACKET) invokes actions[idx] exactly once, and leaves
\* obuf_next = 0 and obuf_bottom = the number of bytes the action wrote, so
\* that is_loaded() holds whenever output_size(idx) > 0.
C1_ResolvingPutInvokesAction ==
  (op = "put" /\ status = "RESOLVED_PACKET") =>
     /\ invoked = <<PacketIndex(packet)>>
     /\ m_obuf_next = 0
     /\ m_obuf_bottom = OutputSizeOf(packet)
     /\ (OutputSizeOf(packet) > 0 => is_loaded(This))

\* C2: once a request for an action idx < N has been put byte by byte, the
\* bytes that successive get() calls return while is_loaded() holds are the
\* encoding of the functor's return value: when the packet has resolved and
\* the output buffer is no longer loaded, the bytes drained are the response.
C2_DrainedBytesAreResponse ==
  (packet_status = "RESOLVED_PACKET" /\ ~is_loaded(This)) =>
     drained = Response(packet)

\* C3: operator()(src, dest) run from the initial input state on a request
\* whose index is < N returns RESOLVED_PACKET, having called src exactly
\* sizeof(index_t) + input_size(idx) times and dest exactly
\* output_size(idx) times.
C3_ProcessConservation ==
  (op = "process" /\ from_idle /\ PacketIndex(fed) < size) =>
     /\ status = "RESOLVED_PACKET"
     /\ Len(fed) = sizeof_index_t + InputSizeOf(fed)
     /\ Len(dest_out) = OutputSizeOf(fed)

\* C4: from the initial input state, put returns LOADING_PACKET for every
\* byte of a request but the last and RESOLVED_PACKET for the last one (the
\* last index byte when the action takes no argument); after the
\* RESOLVED_PACKET the input side is back in its initial state.  A request
\* for an action of the keyring is never dropped.
C4_PutStatusSequence ==
  /\ req # <<>> => PartOfRequest(req)
  /\ packet_status = "RESOLVED_PACKET" => WholeRequest(packet) /\ Idle(This)
  /\ packet_status = "DROPPED_PACKET" => PacketIndex(packet) >= size
  /\ op = "put" =>
       status = IF packet = <<>> THEN "LOADING_PACKET" ELSE packet_status

\* C4 witness: a put has just resolved a request made of a two-byte index
\* and an argument byte.
C4_Witness ==
  /\ op = "put" /\ status = "RESOLVED_PACKET"
  /\ sizeof_index_t = 2 /\ Len(packet) = 3

\* C5 as stated: a put that returns DROPPED_PACKET received index bytes that
\* decode to a value >= N, invokes no action, leaves the input side in its
\* initial state, and leaves obuf_next, obuf_bottom and the contents of the
\* output buffer as they were before the call.
C5_DroppedLeavesOutputBuffer ==
  [][(op' = "put" /\ status' = "DROPPED_PACKET") =>
       /\ Len(packet') = sizeof_index_t /\ PacketIndex(packet') >= size
       /\ invoked' = <<>>
       /\ Idle(This')
       /\ m_obuf_next' = m_obuf_next /\ m_obuf_bottom' = m_obuf_bottom
       /\ obuf_begin(This') = obuf_begin(This)]_vars

\* C5 amended: as C5, but the output buffer is unchanged in the double-
\* buffered configuration only; in the single-buffered configuration the
\* one shared array changes at most at offset sizeof(index_t) - 1, where the
\* call stored its byte.  The index bytes that decode to a value >= N are
\* always dropped on the last of them.
C5_DroppedResetsInput ==
  [][(op' = "put") =>
       /\ (status' = "DROPPED_PACKET") =>
            /\ Len(packet') = sizeof_index_t /\ PacketIndex(packet') >= size
            /\ invoked' = <<>>
            /\ Idle(This')
            /\ m_obuf_next' = m_obuf_next /\ m_obuf_bottom' = m_obuf_bottom
            /\ cfg = "double" => m_obuf' = m_obuf
            /\ cfg = "single" =>
                 \A i \in 1..Len(m_ibuf) :
                    i # sizeof_index_t => m_ibuf'[i] = m_ibuf[i]
       /\ LET p == req \o fed' IN
          (Len(p) = sizeof_index_t /\ PacketIndex(p) >= size) =>
             status' = "DROPPED_PACKET"]_vars

\* C5 witness: the bytes 00 2C (11264 >= 300) put to the little-endian
\* keyring of 300 actions, the second put returning DROPPED_PACKET.
C5_Witness ==
  /\ op = "put" /\ status = "DROPPED_PACKET"
  /\ kr = 2 /\ endianess = "LITTLE" /\ packet = <<0, 44>>

\* C6: whenever the index is loaded, load_count + ibuf_next =
\* sizeof(index_t) + input_size(actions[idx]) for the idx decoded from the
\* first bytes of the input buffer, and load_count >= 1.
C6_AwaitingArgsCount ==
  m_is_index_loaded =>
     /\ get_index(m_ibuf) < size
     /\ m_load_count + m_ibuf_next
          = sizeof_index_t + m_dispatcher(get_index(m_ibuf)).input_size
     /\ m_load_count >= 1

\* C6 witness: the index is loaded, an action has been replaced since, and
\* one argument byte of two is still awaited.
C6_Witness ==
  /\ m_is_index_loaded /\ m_ibuf_next = sizeof_index_t + 1
  /\ m_load_count = 1 /\ op = "replace"

\* C7: whenever ibuf_next = 0 the index is not loaded and load_count =
\* sizeof(index_t); this is the state after construction and after every
\* packet that resolved or was dropped.
C7_IdleState ==
  /\ m_ibuf_next = 0 => ~m_is_index_loaded /\ m_load_count = sizeof_index_t
  /\ op = "construct" => m_ibuf_next = 0
  /\ packet_status \in {"RESOLVED_PACKET", "DROPPED_PACKET"} => m_ibuf_next = 0

\* C7 witness: a two-byte index has just been dropped.
C7_Witness ==
  /\ packet_status = "DROPPED_PACKET" /\ Len(packet) = 2 /\ m_ibuf_next = 0

\* For every keyring the needed input size is sizeof(index_t) plus the
\* largest input_size of its actions.
NeededInputIsIndexPlusLargestInput ==
  \A k \in Keyrings :
    LET sizes == {SizeofIndex(k) + Signature(k, i).parameters_size :
                    i \in 0..(KeyringSize(k) - 1)}
    IN /\ NeededSizes[k].input \in sizes
       /\ \A n \in sizes : n <= NeededSizes[k].input

\* C8: put never stores at an offset >= the size of the input array, and
\* ibuf_next never exceeds needed_input_buffer_size = sizeof(index_t) + the
\* largest input_size (double-buffered) or buffer_size = max(needed input
\* size, needed output size) (single-buffered).
C8_InputBufferBound ==
  /\ max_store < ibuf_size
  /\ Len(m_ibuf) = ibuf_size
  /\ cfg = "double" => m_ibuf_next <= NeededSizes[kr].input
  /\ cfg = "single" =>
       /\ m_ibuf_next <= buffer_size
       /\ buffer_size >= NeededSizes[kr].input
       /\ buffer_size >= NeededSizes[kr].output
       /\ buffer_size \in {NeededSizes[kr].input, NeededSizes[kr].output}
  /\ NeededInputIsIndexPlusLargestInput

\* C8 witness: a put has stored at the last offset of the input array of a
\* double-buffered dispatcher.
C8_Witness ==
  /\ cfg = "double" /\ op = "put" /\ max_store = ibuf_size - 1

\* C9: in every reachable state of the buffered dispatcher of either
\* library, obuf_next <= obuf_bottom <= the size of the output array;
\* get() (k2o: write) reads no byte of the output array at an offset >= its
\* size, and the putter handed to an action (k2o: to an order, read lines
\* 87-90) stores no byte at an offset >= its size.
C9_OutputCursors ==
  LET output_buffer == obuf_begin(This) IN
  /\ 0 <= m_obuf_next
  /\ m_obuf_next <= m_obuf_bottom
  /\ m_obuf_bottom <= Len(output_buffer)
  /\ max_read < Len(output_buffer)
  /\ max_write < Len(output_buffer)

\* C9 witness: an order has just run whose putter stored at the last offset
\* of the output array, while a byte of the response before was still to
\* be handed over.
C9_Witness ==
  /\ lib = "k2o" /\ op \in {"read", "read_all"} /\ invoked # <<>>
  /\ max_write = Len(m_obuf) - 1
  /\ m_obuf_next = 0 /\ m_obuf_bottom = Len(m_obuf)
  /\ Len(events) > 0

\* write has read the byte at the last offset of the output array.
C9_WitnessRead ==
  /\ lib = "k2o" /\ op = "write"
  /\ max_read = Len(m_obuf) - 1
  /\ m_obuf_next = m_obuf_bottom

\* C10: get() returns obuf[obuf_next] and increments obuf_next by one when
\* is_loaded(), and returns a byte changing nothing otherwise; either way
\* the input side, obuf_bottom, both arrays and the action table are as
\* before, and so is the status put would return for any next byte.
C10_GetFrame ==
  [][(op' = "get") =>
       /\ is_loaded(This) =>
            /\ ret' = obuf_begin(This)[m_obuf_next + 1]
            /\ m_obuf_next' = m_obuf_next + 1
       /\ ~is_loaded(This) => m_obuf_next' = m_obuf_next /\ ret' \in 0..255
       /\ UNCHANGED <<m_is_index_loaded, m_load_count, m_ibuf_next,
                      m_obuf_bottom, m_ibuf, m_obuf, replaced, req>>
       /\ \A b \in Byte : put(This', b).status = put(This, b).status]_vars

\* C10 witness: get() has been called while arguments were awaited.
C10_Witness ==
  /\ op = "get" /\ m_is_index_loaded /\ ret = 0

\* The statuses the successive put calls return when bytes are put to self
\* one after the other, and the object they leave.
RECURSIVE Puts(_, _)
Puts(self, bytes) ==
  IF bytes = <<>> THEN [self |-> self, statuses |-> <<>>]
  ELSE LET r == put(self, Head(bytes))
           rest == Puts(r.self, Tail(bytes))
       IN [self |-> rest.self, statuses |-> <<r.status>> \o rest.statuses]

\* C11: read_from(src), called in any reachable state, puts the bytes src
\* yields one after the other and returns at the first put whose status is
\* RESOLVED_PACKET or DROPPED_PACKET, returning that status: every earlier
\* put returned LOADING_PACKET, the object is as those puts leave it, and at
\* most sizeof(index_t) + the largest input_size bytes were fetched.
C11_ReadFromStopsAtPacketEnd ==
  [][(op' = "read_from") =>
       LET p == Puts(This, fed') IN
       /\ Len(fed') >= 1
       /\ Len(fed') <= NeededSizes[kr].input
       /\ \A i \in 1..(Len(fed') - 1) : p.statuses[i] = "LOADING_PACKET"
       /\ p.statuses[Len(fed')] = status'
       /\ status' \in {"RESOLVED_PACKET", "DROPPED_PACKET"}
       /\ This' = p.self]_vars

\* C11 witness: read_from, called while an argument byte was awaited, has
\* fetched that one byte and returned RESOLVED_PACKET.
C11_Witness ==
  /\ op = "read_from" /\ ~from_idle /\ Len(fed) = 1
  /\ status = "RESOLVED_PACKET" /\ Len(packet) = sizeof_index_t + 2

\* The bytes of the staged response, in the order write_to emits them.
Staged(self) ==
  [i \in 1..(self.m_obuf_bottom - self.m_obuf_next) |->
     obuf_begin(self)[self.m_obuf_next + i]]

\* C12: operator()(src, dest) runs read_from(src), then write_to(dest) if
\* and only if the status is RESOLVED_PACKET, and returns that status; when
\* the status is DROPPED_PACKET dest is not called and the output cursors are
\* as before the call.  (read_from is stated by what the successive puts
\* of the bytes fetched return, write_to by the bytes between the output
\* cursors.)
C12_ProcessIsReadThenWrite ==
  [][(op' = "process") =>
       LET p == Puts(This, fed') IN
       /\ Len(fed') >= 1
       /\ \A i \in 1..(Len(fed') - 1) : p.statuses[i] = "LOADING_PACKET"
       /\ status' = p.statuses[Len(fed')]
       /\ status' \in {"RESOLVED_PACKET", "DROPPED_PACKET"}
       /\ events'[1] = "read_from"
       /\ (status' = "RESOLVED_PACKET") <=>
             (events' = <<"read_from", "write_to">>)
       /\ (status' # "RESOLVED_PACKET") <=> (events' = <<"read_from">>)
       /\ (status' = "RESOLVED_PACKET") =>
             /\ dest_out' = Staged(p.self)
             /\ dest_count' = Len(Staged(p.self))
             /\ This' = [p.self EXCEPT !.m_obuf_next = p.self.m_obuf_bottom]
             /\ ~is_loaded(This')
       /\ (status' = "DROPPED_PACKET") =>
             /\ dest_count' = 0
             /\ This' = p.self
             /\ m_obuf_next' = m_obuf_next
             /\ m_obuf_bottom' = m_obuf_bottom]_vars

\* C12 witness: operator()(), called while an argument byte was awaited, has
\* fetched that byte, got RESOLVED_PACKET from read_from and called
\* write_to.
C12_Witness ==
  /\ op = "process" /\ status = "RESOLVED_PACKET" /\ ~from_idle
  /\ Len(fed) = 1 /\ events = <<"read_from", "write_to">>

\* operator()() has got DROPPED_PACKET from read_from on a two-byte index
\* and has not called write_to.
C12_WitnessDropped ==
  /\ op = "process" /\ status = "DROPPED_PACKET" /\ Len(fed) = 2
  /\ events = <<"read_from">> /\ dest_count = 0

\* C13: write_to(dest) (k2o: write_all) returns after calling dest exactly
\* obuf_bottom - obuf_next times (their values when it is called), with the
\* bytes of the output array at the offsets obuf_next .. obuf_bottom - 1 in
\* ascending order; afterwards is_loaded() is false and index_loaded,
\* load_count and ibuf_next are as before.  k2o's write hands over the one
\* byte at obuf_next when is_loaded(), none otherwise.
C13_WriteToDrains ==
  [][/\ (op' \in {"write_to", "write_all"}) =>
          /\ dest_count' = m_obuf_bottom - m_obuf_next
          /\ dest_out' = [i \in 1..(m_obuf_bottom - m_obuf_next) |->
                           obuf_begin(This)[m_obuf_next + i]]
          /\ ~is_loaded(This')
          /\ m_obuf_next' = m_obuf_bottom
          /\ m_obuf_bottom' = m_obuf_bottom
          /\ UNCHANGED <<m_is_index_loaded, m_load_count, m_ibuf_next>>
     /\ (op' = "write") =>
          /\ dest_out' = IF is_loaded(This)
                         THEN <<obuf_begin(This)[m_obuf_next + 1]>>
                         ELSE <<>>
          /\ dest_count' = Len(dest_out')
          /\ m_obuf_next' = m_obuf_next + dest_count'
          /\ m_obuf_bottom' = m_obuf_bottom
          /\ UNCHANGED <<m_is_index_loaded, m_load_count, m_ibuf_next>>
    ]_vars

\* C13 witness: write_all has handed over the two bytes of a response of
\* add, which differ, in the order they lie in the output array, while the
\* arguments of the next request were awaited.
C13_Witness ==
  /\ lib = "k2o" /\ op = "write_all"
  /\ dest_count = 2 /\ drained = dest_out
  /\ dest_out = <<m_obuf[1], m_obuf[2]>> /\ m_obuf[1] # m_obuf[2]
  /\ m_obuf_next = 2 /\ m_obuf_bottom = 2
  /\ m_is_index_loaded

\* write_all has handed over the last two bytes of a response of three, a
\* write having taken the first.
C13_WitnessFromWithin ==
  /\ lib = "k2o" /\ op = "write_all"
  /\ dest_count = 2 /\ Len(drained) = 3
  /\ dest_out = <<m_obuf[2], m_obuf[3]>>
  /\ m_obuf_next = 3 /\ m_obuf_bottom = 3

\* write_to of upd::buffered_undispatcher has been called while an
\* argument byte was awaited: nothing is staged and dest is not called.
C13_WitnessUpd ==
  /\ lib = "upd" /\ op = "write_to" /\ m_is_index_loaded
  /\ m_load_count = 1 /\ dest_count = 0

\* The index a stream begins with, decoded in the keyring's byte order.
IndexOf(stream) ==
  interpret_with_endianess(stream, 0, sizeof_index_t, endianess)

\* C14: dispatch on index bytes that decode to a value >= N returns that
\* value, invokes no action, calls src exactly sizeof(index_t) times, never
\* calls dest, and leaves the action table as it was.
C14_OutOfRangeDispatch ==
  [][(op' = "dispatch" /\ Len(fed') >= sizeof_index_t
        /\ IndexOf(fed') >= size) =>
       /\ ret' = IndexOf(fed')
       /\ invoked' = <<>>
       /\ events' = Repeat("src", sizeof_index_t)
       /\ Len(fed') = sizeof_index_t
       /\ dest_count' = 0 /\ dest_out' = <<>>
       /\ replaced' = replaced]_vars

\* An out-of-range index of two bytes has been dispatched (k2o) after an
\* action of the table was replaced.
C14_Witness ==
  /\ op = "dispatch" /\ sizeof_index_t = 2 /\ lib = "k2o"
  /\ fed = <<44, 44>> /\ ret >= size

\* C15: dispatch on index bytes that decode to i < N invokes actions[i]
\* and no other action, once, with the src it read the index from (so the
\* action's arguments are the bytes that follow the index) and with dest,
\* and returns i.
C15_InRangeDispatch ==
  [][(op' = "dispatch" /\ Len(fed') >= sizeof_index_t
        /\ IndexOf(fed') < size) =>
       LET i == IndexOf(fed')
           a == m_dispatcher(i)
           args == Drop(fed', sizeof_index_t)
       IN /\ ret' = i
          /\ invoked' = <<i>>
          /\ Len(SelectSeq(events', LAMBDA e : e = "apply")) = 1
          /\ Len(args) = a.input_size
          /\ Len(SelectSeq(events', LAMBDA e : e = "src")) = Len(fed')
          /\ dest_out' = IF a.output_size = 0 THEN <<>>
                         ELSE ActionResponse(a, args)
          /\ dest_count' = a.output_size
          /\ replaced' = replaced]_vars

\* The action at index 256 of the second keyring, echo, has been dispatched
\* with the argument 44 and has answered it.
C15_Witness ==
  /\ op = "dispatch" /\ kr = 2 /\ endianess = "BIG"
  /\ fed = <<1, 0, 44>> /\ ret = 256 /\ invoked = <<256>>
  /\ dest_out = <<44>>

\* The width in bytes of the smallest unsigned integer type that holds the
\* values 0..n-1.
SmallestUnsignedWidth(n) == IF n <= 256 THEN 1 ELSE IF n <= 65536 THEN 2 ELSE 4

\* C16: get_index(src) calls src exactly sizeof(index_t) times and returns
\* these bytes decoded as an unsigned integer in the keyring's byte order
\* (two bytes: b0 + 256*b1 under LITTLE, 256*b0 + b1 under BIG); index_t is
\* one byte wide for N <= 256 and two bytes wide for N <= 65536.
C16_GetIndexDecodes ==
  op = "get_index" =>
    /\ sizeof_index_t = SmallestUnsignedWidth(size)
    /\ Len(fed) = sizeof_index_t
    /\ events = Repeat("src", sizeof_index_t)
    /\ invoked = <<>> /\ dest_count = 0
    /\ sizeof_index_t = 1 => ret = fed[1]
    /\ (sizeof_index_t = 2 /\ endianess = "LITTLE") =>
         ret = fed[1] + 256 * fed[2]
    /\ (sizeof_index_t = 2 /\ endianess = "BIG") =>
         ret = 256 * fed[1] + fed[2]

\* Two different bytes have been read as a big-endian index by the k2o
\* dispatcher.
C16_Witness ==
  /\ op = "get_index" /\ lib = "k2o" /\ endianess = "BIG"
  /\ fed = <<1, 44>> /\ ret = 300

\* C17: get_action(src) (k2o: get_order) consumes exactly sizeof(index_t)
\* bytes, invokes no action, and returns actions[index] if and only if the
\* decoded index is < N; otherwise it returns the empty result, which in
\* k2o carries the out-of-range index.
C17_GetActionIsChecked ==
  op = "get_action" =>
    /\ Len(fed) = sizeof_index_t
    /\ events = Repeat("src", sizeof_index_t)
    /\ invoked = <<>> /\ dest_count = 0
    /\ ret.has <=> IndexOf(fed) < size
    /\ ret.has => ret.action = IndexOf(fed)
    /\ ~ret.has => ret = IF lib = "upd" THEN [has |-> FALSE]
                         ELSE [has |-> FALSE, error |-> IndexOf(fed)]

\* get_action has been asked for the index N, the first past the table,
\* and has returned nullptr.
C17_Witness ==
  /\ op = "get_action" /\ lib = "upd" /\ IndexOf(fed) = size /\ ~ret.has

\* C18: an action invoked with a getter and a putter, whether it owns its
\* functor or not, calls the getter exactly input_size times, then applies
\* the wrapped function once, then calls the putter exactly output_size
\* times with the bytes of the return value in wire order; a function that
\* returns void has the putter called zero times.
C18_InvokeProtocol ==
  [][(op' = "dispatch" /\ invoked' # <<>>) =>
       LET a == m_dispatcher(invoked'[1])
           args == Drop(fed', sizeof_index_t)
           sum == args[1] + args[2]
       IN /\ events' = Repeat("src", sizeof_index_t)
                         \o Repeat("src", a.input_size) \o <<"apply">>
                         \o Repeat("dest", a.output_size)
          /\ dest_count' = a.output_size
          /\ Len(dest_out') = a.output_size
          /\ a.output_size > 0 => dest_out' = ActionResponse(a, args)
          /\ (kr = 1 /\ a.sig = 0 /\ a.ftor = "keyring") =>
               dest_out' = IF endianess = "LITTLE"
                           THEN <<sum % 256, sum \div 256>>
                           ELSE <<sum \div 256, sum % 256>>]_vars

\* An action that owns its functor, add, has been given 44 and 1 and has
\* answered 45 on two bytes, the high one first.
C18_Witness ==
  /\ op = "dispatch" /\ features = "ANY" /\ kr = 1 /\ endianess = "BIG"
  /\ fed = <<0, 44, 1>> /\ dest_out = <<0, 45>>
  /\ events = <<"src", "src", "src", "apply", "dest", "dest">>

\* Every action of the table has the signature the keyring gives its index,
\* and the sizes that signature yields.
ActionsKeepSignatures ==
  \A i \in 0..(size - 1) :
    /\ Signature(kr, m_dispatcher(i).sig) = Signature(kr, i)
    /\ m_dispatcher(i).input_size = parameters_size(i)
    /\ m_dispatcher(i).output_size = return_type_size(i)

\* replace<Index>(ftor) is well-formed: Index is in the table and ftor has
\* the signature of the keyring's Index-th function.
WellFormedReplace(Index, ftor) ==
  /\ Index < size
  /\ Signature(kr, ftor.sig) = Signature(kr, Index)

\* C19: after construction and after any sequence of replace<Index>, every
\* actions[i], i < N, has the keyring's signature Sig_i, so its input_size
\* and output_size keep the values derived from Sig_i; a replace whose Index
\* is >= N or whose callable has another signature is rejected and changes
\* nothing, and an accepted one puts the callable at Index and changes no
\* other action.
C19_ReplaceKeepsSignatures ==
  /\ ActionsKeepSignatures
  /\ (op = "replace" /\ ~WellFormedReplace(ret.Index, ret.ftor)) =>
       replaced = ret.before
  /\ (op = "replace" /\ WellFormedReplace(ret.Index, ret.ftor)) =>
       /\ \A pair \in replaced : pair[1] = ret.Index => pair[2] = ret.ftor
       /\ {pair \in replaced : pair[1] # ret.Index}
            = {pair \in ret.before : pair[1] # ret.Index}

\* A replacement functor sits in the table, and the last call was a replace
\* with a functor of another signature, which left it there.
C19_Witness ==
  /\ op = "replace" /\ replaced = {<<0, Functor(0, "replacement")>>}
  /\ ~WellFormedReplace(ret.Index, ret.ftor)
  /\ ret.Index = 0 /\ ret.ftor.body = "replacement"
  /\ ActionsKeepSignatures

\* The single-buffered and the double-buffered dispatcher, given the same
\* put and get calls with no put while the single-buffered one is loaded,
\* have returned the same put status and the same get() byte.  (status and
\* ret are what the single-buffered dispatcher returned, twin what the
\* double-buffered one returned, once both have received the call.)
SingleAgreesWithDouble ==
  (cfg = "single" /\ op \in {"put", "get"}) =>
    /\ status = twin.status
    /\ ret = twin.ret

\* C20 as stated: for every sequence of put and get calls in which put is
\* never called while is_loaded() is true, the single-buffered dispatcher
\* returns the same put statuses and the same get() bytes as a
\* double-buffered dispatcher given the same sequence, and, as in the
\* example (feed 00 2A, drain 2A, feed 00 17, drain 17), once a request has
\* resolved and the output buffer is no longer loaded the bytes drained are
\* the response to it.
C20_SingleRefinesDouble ==
  (cfg = "single" /\ op \in {"put", "get"}) =>
    /\ status = twin.status
    /\ ret = twin.ret
    /\ (packet_status = "RESOLVED_PACKET" /\ ~is_loaded(This)) =>
          drained = Response(packet)

\* Both dispatchers have resolved the request 00 2C 2C for add and then
\* been asked for a byte: each returned 0 and is not loaded, nothing was
\* drained.
SingleDrainsNothing ==
  /\ cfg = "single" /\ op = "get" /\ kr = 1
  /\ packet = <<0, 44, 44>> /\ packet_status = "RESOLVED_PACKET"
  /\ ret = 0 /\ twin.ret = 0 /\ drained = <<>>
  /\ Response(packet) # <<>>

\* C21: in the double-buffered configuration, whatever the interleaving of
\* put and get calls, a put that returns LOADING_PACKET or DROPPED_PACKET
\* leaves obuf_next, obuf_bottom and every byte of the output array as they
\* were, so what get() returns next is what it would have returned had the
\* put not been made.
C21_PutLeavesOutputSide ==
  [][(cfg = "double" /\ op' = "put"
        /\ status' \in {"LOADING_PACKET", "DROPPED_PACKET"}) =>
       /\ m_obuf_next' = m_obuf_next
       /\ m_obuf_bottom' = m_obuf_bottom
       /\ m_obuf' = m_obuf
       /\ get(This').byte = get(This).byte
       /\ get(This').read = get(This).read]_vars

\* An argument byte has been put to the double-buffered dispatcher, the
\* request is still loading, and the output array holds other bytes than
\* the input array.
C21_Witness ==
  /\ cfg = "double" /\ op = "put" /\ status = "LOADING_PACKET"
  /\ m_is_index_loaded /\ m_ibuf_next = sizeof_index_t + 1
  /\ m_obuf # Take(m_ibuf, Len(m_obuf))

\* The output cursors never leave 0: no call stages a response.  Hence no
\* reachable state has a drained byte or a response longer than a key's
\* buffer argument, the two cases C22 is about.
OutputCursorsStayZero == m_obuf_next = 0 /\ m_obuf_bottom = 0

\* C23 as stated: reply returns true only when a response is staged and
\* none of it has been drained (obuf_next = 0 and obuf_bottom > 0, so
\* is_loaded()); when the output buffer is empty it returns false and writes
\* nothing to output.
C23_ReplyNeedsStagedResponse ==
  [][(op' = "reply") =>
       /\ ret'.returned =>
            (m_obuf_next = 0 /\ m_obuf_bottom > 0 /\ is_loaded(This))
       /\ ~is_loaded(This) => (~ret'.returned /\ dest_count' = 0)]_vars

\* What a reply that returns true does in the states this program
\* reaches, all of which have an empty output buffer: it hands output
\* key.payload_length bytes, the key's index first and then the buffer
\* argument, none of whose bytes comes from the output buffer, and
\* is_loaded() stays false.  No reachable state has a staged response for
\* reply to forward, the case C24 is about.
ReplyOnEmptyOutputBuffer ==
  [][(op' = "reply" /\ ret'.returned) =>
       /\ Staged(This) = <<>>
       /\ dest_count' = ret'.k.payload_length
       /\ dest_out' = <<ret'.k.index>>
       /\ ~is_loaded(This')]_vars

\* C25 as stated: for every keyring needed_output_buffer_size is the
\* largest output_size of its signatures, and it is the size of the output
\* array of the double-buffered dispatcher, so that the response of every
\* action fits.
C25_OutputSizeIsLargestOutput ==
  /\ \A k \in Keyrings :
       LET sizes == {Signature(k, i).return_type_size :
                       i \in 0..(KeyringSize(k) - 1)}
       IN /\ NeededSizes[k].output \in sizes
          /\ \A n \in sizes : n <= NeededSizes[k].output
  /\ cfg = "double" =>
       /\ Len(m_obuf) = NeededSizes[kr].output
       /\ \A i \in 0..(size - 1) :
            m_dispatcher(i).output_size <= Len(m_obuf)

\* The index the input array of self begins with, as the k2o dispatcher
\* decodes it.
StoredIndex(self) == k2o_get_index(self.m_ibuf).index

\* The byte about to be read is the last index byte.
LastIndexByteAwaited == ~m_is_index_loaded /\ m_load_count = 1

\* C26 as stated: once a full order request has been received it is
\* fulfilled at once.  For an order whose input_size is 0, the read that
\* receives the last index byte invokes the order and leaves the input side
\* empty (index not loaded, load_count = sizeof(index_t)); for an order with
\* arguments the read that receives the last argument byte does; read_all
\* returns having consumed sizeof(index_t) + input_size bytes.
C26_FullRequestFulfilledAtOnce ==
  [][/\ (op' = "read" /\ LastIndexByteAwaited
           /\ StoredIndex(This') < size
           /\ m_dispatcher(StoredIndex(This')).input_size = 0) =>
          /\ invoked' = <<StoredIndex(This')>>
          /\ ~m_is_index_loaded'
          /\ m_load_count' = sizeof_index_t
     /\ (op' = "read" /\ m_is_index_loaded /\ m_load_count = 1
           /\ StoredIndex(This) < size) =>
          /\ invoked' = <<StoredIndex(This)>>
          /\ Idle(This')
     /\ (op' = "read_all" /\ Idle(This) /\ status' # "fault"
           /\ IndexOf(fed') < size) =>
          /\ Len(fed') = sizeof_index_t + m_dispatcher(IndexOf(fed')).input_size
          /\ invoked' = <<IndexOf(fed')>>]_vars

\* C27 as stated: read never subscripts m_dispatcher with an index >= N;
\* when the index bytes decode to a value >= N the request is discarded on
\* the read that receives the last index byte, no order is invoked and the
\* output cursors are left alone.
C27_NoOrderPastTheTable ==
  [][(op' \in {"read", "read_all"}) =>
       /\ \A j \in 1..Len(ret') : ret'[j] < size
       /\ status' # "fault"
       /\ (op' = "read" /\ LastIndexByteAwaited
             /\ StoredIndex(This') >= size) =>
            /\ Idle(This')
            /\ invoked' = <<>>
            /\ m_obuf_next' = m_obuf_next
            /\ m_obuf_bottom' = m_obuf_bottom]_vars

\* A value has been written, and the same type has been read back at the
\* same offset.
ReadBack ==
  /\ codec.op \in {"interpret_as", "read_as"}
  /\ codec.asked = codec.T /\ codec.at = codec.offset

\* A value has been written and nothing has been read yet.
Written == codec.op \in {"write", "write_as"}

\* C28: whatever the byte order and the signed mode, a value x of an integer
\* type T that is written and then read back as a T at the same offset is
\* read as x, and writing it changes sizeof(T) bytes, those from the offset
\* on, and no other.
C28_RoundTrip ==
  /\ ReadBack => codec.value = codec.x
  /\ Written =>
       \A i \in 1..N :
         (i <= codec.offset \/ i > codec.offset + codec.T.size)
           => codec.self.m_raw_data[i] = codec.before[i]

\* The extent of C28: the round trip loses the most negative value of a
\* signed type under ONE_COMPLEMENT and no other value, and a write never
\* touches a byte outside the sizeof(T) it is to fill.
RoundTripButMostNegative ==
  /\ ReadBack =>
       (codec.value = codec.x
          <=> ~(/\ codec.T.signed
                /\ codec.self.m_signed_mode = "ONE_COMPLEMENT"
                /\ codec.x = MinOf(codec.T)))
  /\ Written =>
       \A i \in 1..N :
         (i <= codec.offset \/ i > codec.offset + codec.T.size)
           => codec.self.m_raw_data[i] = codec.before[i]

\* Where the octet of weight 256^k of an n-byte integer at the offset o is
\* in the array, under the byte order: o + k under LITTLE, o + (n - 1 - k)
\* under BIG (the array is indexed from 1).
OctetAt(raw, o, n, k, order) ==
  IF order = "LITTLE" THEN raw[o + k + 1] ELSE raw[o + (n - 1 - k) + 1]

\* C29: an unsigned x of n bytes written at the offset o leaves the byte
\* (x >> 8k) & 0xFF at o + k under LITTLE and at o + (n - 1 - k) under BIG,
\* for every k in 0..n-1, and an unsigned integer read at an offset is the
\* number whose octet of weight 256^k is the byte at that place.
C29_ByteOrderOfUnsigned ==
  /\ (Written /\ ~codec.T.signed) =>
       \A k \in 0..(codec.T.size - 1) :
         OctetAt(codec.self.m_raw_data, codec.offset, codec.T.size, k,
                 codec.self.m_endianess)
           = (codec.x \div Pow256(k)) % 256
  /\ (codec.op \in {"interpret_as", "read_as"} /\ ~codec.asked.signed) =>
       /\ 0 <= codec.value /\ codec.value < Pow256(codec.asked.size)
       /\ \A k \in 0..(codec.asked.size - 1) :
            (codec.value \div Pow256(k)) % 256
              = OctetAt(codec.self.m_raw_data, codec.at, codec.asked.size, k,
                        codec.self.m_endianess)

\* 0x0102 written as a uint16_t at offset 1 under BIG is the bytes 01 02,
\* and is read back from them.
C29_Witness ==
  /\ codec.op = "interpret_as"
  /\ codec.self.m_endianess = "BIG"
  /\ codec.T = [size |-> 2, signed |-> FALSE] /\ codec.asked = codec.T
  /\ codec.x = 258 /\ codec.offset = 1 /\ codec.at = 1
  /\ codec.self.m_raw_data[2] = 1 /\ codec.self.m_raw_data[3] = 2
  /\ codec.value = 258

\* The unsigned pattern of 8n bits the specification gives the signed x
\* under a signed mode.
PatternOf(Signed_Mode, n, x) ==
  IF Signed_Mode = "TWO_COMPLEMENT" THEN x % Pow256(n)
  ELSE IF x >= 0 THEN x
  ELSE Pow256(n) - 1 - (-x)

\* C30: a signed x of n bytes is written as the n octets, in the byte order,
\* of x mod 2^(8n) under TWO_COMPLEMENT and, under ONE_COMPLEMENT, of x if
\* x >= 0 and of the n-byte bitwise inverse of |x| if x < 0; of the wide
\* intermediate value nothing else is written: the bytes outside those n
\* are left as they were.
C30_SignedPattern ==
  (Written /\ codec.T.signed) =>
    /\ \A k \in 0..(codec.T.size - 1) :
         OctetAt(codec.self.m_raw_data, codec.offset, codec.T.size, k,
                 codec.self.m_endianess)
           = (PatternOf(codec.self.m_signed_mode, codec.T.size, codec.x)
                \div Pow256(k)) % 256
    /\ \A i \in 1..N :
         (i <= codec.offset \/ i > codec.offset + codec.T.size)
           => codec.self.m_raw_data[i] = codec.before[i]

\* -2 written as an int16_t at offset 0 under ONE_COMPLEMENT and LITTLE is
\* the bytes FD FF, the third byte of the storage being left alone.
C30_Witness ==
  /\ codec.op = "write"
  /\ codec.self.m_endianess = "LITTLE"
  /\ codec.self.m_signed_mode = "ONE_COMPLEMENT"
  /\ codec.T = [size |-> 2, signed |-> TRUE]
  /\ codec.x = -2 /\ codec.offset = 0
  /\ codec.self.m_raw_data = <<253, 255, 44>>
  /\ codec.before = <<44, 44, 44>>

\* The unsigned pattern the scalar rules give the value x of the integer
\* type T.
ScalarPattern(Signed_Mode, T, x) ==
  IF T.signed THEN PatternOf(Signed_Mode, T.size, x) ELSE x

\* The sizeof(T) bytes of raw from the offset o on are the encoding of x by
\* the scalar rules.
EncodedAt(raw, o, T, x, order, Signed_Mode) ==
  \A k \in 0..(T.size - 1) :
    OctetAt(raw, o, T.size, k, order)
      = (ScalarPattern(Signed_Mode, T, x) \div Pow256(k)) % 256

\* The array written last has element i encoded by the scalar rules at
\* offset + i * size(E), and no byte outside its L * size(E) bytes changed.
ArrayLaidOut ==
  Written =>
    /\ \A i \in 0..(codec.T.len - 1) :
         EncodedAt(codec.self.m_raw_data,
                   codec.offset + i * codec.T.elem.size,
                   codec.T.elem, codec.x[i + 1],
                   codec.self.m_endianess, codec.self.m_signed_mode)
    /\ \A i \in 1..NArray :
         (i <= codec.offset \/ i > codec.offset + sizeof(codec.T))
           => codec.self.m_raw_data[i] = codec.before[i]

\* C31: an array of L elements of type E written at the offset o occupies
\* exactly L * size(E) bytes, element i being encoded by the scalar rules
\* at o + i * size(E) with no length prefix, and the array read back at o
\* has the same L elements.
C31_ArrayEncoding ==
  /\ ArrayLaidOut
  /\ ReadBack => codec.value = codec.x

\* The extent of C31: the layout is as claimed, and the array read back has
\* L elements, each the one written unless that one is the most negative
\* value of a signed element type under ONE_COMPLEMENT.
ArrayButMostNegative ==
  /\ ArrayLaidOut
  /\ ReadBack =>
       /\ Len(codec.value) = codec.T.len
       /\ \A i \in 1..codec.T.len :
            codec.value[i] = codec.x[i]
              <=> ~(/\ codec.T.elem.signed
                    /\ codec.self.m_signed_mode = "ONE_COMPLEMENT"
                    /\ codec.x[i] = MinOf(codec.T.elem))

\* The encoding of the value x of the integer type T by the scalar rules:
\* the octets of its pattern, in the byte order.
ScalarEncoding(order, Signed_Mode, T, x) ==
  [p \in 1..T.size |->
     (ScalarPattern(Signed_Mode, T, x)
        \div Pow256(IF order = "LITTLE" THEN p - 1 ELSE T.size - p)) % 256]

\* The encoding of the elements of an array from the i-th on, one after
\* the other.
RECURSIVE ElementsEncoding(_, _, _, _, _)
ElementsEncoding(order, Signed_Mode, T, array, i) ==
  IF i > T.len THEN <<>>
  ELSE ScalarEncoding(order, Signed_Mode, T.elem, array[i])
         \o ElementsEncoding(order, Signed_Mode, T, array, i + 1)

\* The encoding of a value of an integer type or of an array type.
Encoding(order, Signed_Mode, T, v) ==
  IF IsArray(T) THEN ElementsEncoding(order, Signed_Mode, T, v, 1)
  ELSE ScalarEncoding(order, Signed_Mode, T, v)

\* The encodings of the values args of the types Ts, from the i-th on, one
\* after the other.
RECURSIVE Concatenation(_, _, _, _, _)
Concatenation(order, Signed_Mode, Ts, args, i) ==
  IF i > Len(Ts) THEN <<>>
  ELSE Encoding(order, Signed_Mode, Ts[i], args[i])
         \o Concatenation(order, Signed_Mode, Ts, args, i + 1)

\* The sum of size(Tj) over the n first types of Ts.
RECURSIVE SumOfSizes(_, _)
SumOfSizes(Ts, n) ==
  IF n = 0 THEN 0 ELSE SumOfSizes(Ts, n - 1) + sizeof(Ts[n])

\* The storage of the tuple, and the encodings of the values it was
\* constructed from, in field order.
TupleBytes == codec.self.m_storage.m_raw_data

ArgsEncoded ==
  Concatenation(codec.self.m_storage.m_endianess,
                codec.self.m_storage.m_signed_mode,
                codec.self.Ts, codec.args, 1)

\* Field i is stored at the sum of the sizes of the fields before it, the
\* storage has the sum of all the sizes, and the bytes indexed are the
\* concatenation of the fields' encodings.
TupleLaidOut ==
  /\ Len(TupleBytes) = SumOfSizes(codec.self.Ts, Len(codec.self.Ts))
  /\ codec.args # <<>> => TupleBytes = ArgsEncoded
  /\ codec.I >= 0 =>
       SubSeq(TupleBytes,
              SumOfSizes(codec.self.Ts, codec.I) + 1,
              SumOfSizes(codec.self.Ts, codec.I + 1))
         = Encoding(codec.self.m_storage.m_endianess,
                    codec.self.m_storage.m_signed_mode,
                    codec.self.Ts[codec.I + 1], codec.x)
  /\ codec.op = "subscript" =>
       /\ codec.value = TupleBytes
       /\ codec.args # <<>> => codec.value = ArgsEncoded

\* C32: field i of a tuple is stored at the byte offset that is the sum of
\* size(Tj) for j < i, the storage size is the sum of all size(Tj), and the
\* bytes got by indexing the tuple, and those got by iterating over it, are
\* the concatenation of the fields' encodings in field order.
C32_TupleLayout ==
  /\ TupleLaidOut
  /\ codec.op = "iterate" =>
       /\ codec.value.well_formed
       /\ codec.value.bytes = TupleBytes

\* C33: after set<I>(v), get<I>() returns v, whatever the byte order and
\* the signed mode, and get<i>() on a tuple constructed from the values
\* (v1..vn) returns vi.
C33_SetGetRoundTrip ==
  codec.op = "get" =>
    /\ codec.value.J = codec.I => codec.value.returned = codec.x
    /\ codec.args # <<>> =>
         codec.value.returned = codec.args[codec.value.J + 1]

\* What a value v of the type T is read back as: itself, but for the most
\* negative value of a signed integer type under ONE_COMPLEMENT, read back
\* as the greatest one.
ReadBackAs(Signed_Mode, T, v) ==
  IF IsArray(T)
  THEN [i \in 1..T.len |->
          IF T.elem.signed /\ Signed_Mode = "ONE_COMPLEMENT"
             /\ v[i] = MinOf(T.elem)
          THEN MaxOfType(T.elem) ELSE v[i]]
  ELSE IF T.signed /\ Signed_Mode = "ONE_COMPLEMENT" /\ v = MinOf(T)
       THEN MaxOfType(T) ELSE v

\* The extent of C33: get returns the value set or constructed from, but
\* for the most negative values under ONE_COMPLEMENT.
SetGetButMostNegative ==
  codec.op = "get" =>
    LET T == codec.self.Ts[codec.value.J + 1]
        mode == codec.self.m_storage.m_signed_mode
    IN /\ codec.value.J = codec.I =>
            codec.value.returned = ReadBackAs(mode, T, codec.x)
       /\ codec.args # <<>> =>
            codec.value.returned
              = ReadBackAs(mode, T, codec.args[codec.value.J + 1])

\* C39: set<I>(v) changes no byte of the storage outside the size(T_I)
\* bytes from the offset of field I on, and so leaves what get<J>() returns
\* as it was for every J other than I; the fields are integers and arrays,
\* under both byte orders.
C39_SetFrame ==
  codec.op = "set" =>
    LET first == SumOfSizes(codec.self.Ts, codec.I)
        last == SumOfSizes(codec.self.Ts, codec.I + 1)
        old == [codec.self EXCEPT !.m_storage.m_raw_data = codec.before]
    IN /\ Len(TupleBytes) = Len(codec.before)
       /\ \A i \in 1..Len(TupleBytes) :
            (i <= first \/ i > last) => TupleBytes[i] = codec.before[i]
       /\ \A J \in Fields :
            J # codec.I => tuple_get(codec.self, J) = tuple_get(old, J)

\* set<1>(256) on a tuple<uint8_t, int16_t, int8_t[2]> under BIG whose
\* storage held 2C in every byte: the bytes 1 and 2 are now 01 00, the
\* others still 2C.
C39_Witness ==
  /\ codec.op = "set" /\ codec.I = 1 /\ codec.x = 256
  /\ Len(codec.self.Ts) = 3
  /\ codec.self.m_storage.m_endianess = "BIG"
  /\ codec.before = <<44, 44, 44, 44, 44>>
  /\ TupleBytes = <<44, 1, 0, 44, 44>>

\* C38: whatever the offset and whether the iterator can be added an offset
\* or only be incremented, write_as(x, begin, offset) writes the encoding
\* of x at the positions [offset, offset + size(T)) of the sequence and
\* nowhere else, and read_as<T>(begin, offset) then returns x.
C38_OffsetOverloads ==
  /\ codec.op = "write_as" =>
       /\ codec.well_formed
       /\ codec.sequence
            = Store(codec.before, codec.offset,
                    ScalarEncoding(codec.Endianess, codec.Signed_Mode,
                                   codec.T, codec.x))
  /\ (codec.op = "read_as" /\ codec.at = codec.offset) =>
       codec.value = codec.x

\* The extent of C38: the call of write_as with an iterator that can be
\* added an offset is ill-formed; with one that can only be incremented it
\* writes the encoding where claimed, and read_as, with either iterator,
\* returns the value but for the most negative one under ONE_COMPLEMENT.
OffsetOverloadsExtent ==
  /\ codec.op = "write_as" =>
       /\ codec.well_formed <=> codec.It = "has_not_plus"
       /\ codec.well_formed =>
            codec.sequence
              = Store(codec.before, codec.offset,
                      ScalarEncoding(codec.Endianess, codec.Signed_Mode,
                                     codec.T, codec.x))
  /\ (codec.op = "read_as" /\ codec.at = codec.offset) =>
       codec.value = ReadBackAs(codec.Signed_Mode, codec.T, codec.x)

(* ------------------------ allocation discipline ------------------------ *)

\* The last call was a replace the static_asserts accept.
AcceptedReplace ==
  /\ op = "replace"
  /\ WellFormedReplace(ret.Index, ret.ftor)

\* The numbers of blocks the last call obtained and released, counted in
\* the calls it made.
Obtained == Len(SelectSeq(events, LAMBDA e : e = "new"))

Released == Len(SelectSeq(events, LAMBDA e : e = "delete"))

\* C34: a dispatcher of non-owning actions obtains no block of free store at
\* construction nor in any call, so it holds none after any number of
\* requests; a dispatcher of owning actions obtains one block per action at
\* construction and one per accepted replace, which releases the block of
\* the action replaced, and none in dispatch, get_index or get_action, so
\* it holds one block per action throughout.
C34_AllocationDiscipline ==
  /\ heap.allocated = Obtained /\ heap.released = Released
  /\ features = "WEAK_REFERENCE" =>
       /\ Obtained = 0 /\ Released = 0
       /\ heap.resident = 0
  /\ features = "ANY" =>
       /\ heap.resident = size
       /\ op = "construct" => (Obtained = size /\ Released = 0)
       /\ AcceptedReplace => (Obtained = 1 /\ Released = 1)
       /\ (op = "replace" /\ ~AcceptedReplace) =>
            (Obtained = 0 /\ Released = 0)
       /\ op \in {"dispatch", "get_index", "get_action"} =>
            (Obtained = 0 /\ Released = 0)

\* An owning dispatcher has invoked an action in a dispatch after an
\* accepted replace put a new functor in the table: the action fetched its
\* arguments, applied the functor and handed over the result, and the
\* dispatcher holds one block per action.
C34_Witness ==
  /\ features = "ANY"
  /\ op = "dispatch"
  /\ Len(invoked) = 1
  /\ replaced # {}
  /\ "apply" \in {events[j] : j \in 1..Len(events)}
  /\ Obtained = 0
  /\ heap.resident = size

\* A non-owning dispatcher has invoked an action.
C34_WitnessNonOwning ==
  /\ features = "WEAK_REFERENCE"
  /\ op = "dispatch"
  /\ Len(invoked) = 1
  /\ heap.resident = 0

\* An owning dispatcher has replaced an action.
C34_WitnessReplace ==
  /\ features = "ANY"
  /\ AcceptedReplace
  /\ events = <<"new", "delete">>
  /\ heap.resident = size

(* ----------------------- k2o: run-time replace ------------------------- *)

\* replace(index, ftor) names an order of the table and ftor has the
\* signature the keyring records for it.
OrderReplaceInContract ==
  /\ ret.Index < size
  /\ Signature(kr, ret.ftor.sig) = Signature(kr, ret.Index)

\* C35: after any sequence of k2o replace(index, functor) calls every
\* orders[i], i < N, has the signature the keyring records for i, so its
\* input_size is unchanged; a replace whose index is >= N or whose functor
\* has another signature does not modify the order table.
C35_RuntimeReplaceKeepsSignatures ==
  /\ ActionsKeepSignatures
  /\ (op = "replace" /\ ~OrderReplaceInContract) => replaced = ret.before

\* What holds of the run-time replace: a call within the contract keeps
\* the signatures, puts the functor at index and changes no other order.
RuntimeReplaceWithinContract ==
  (/\ op = "replace"
   /\ OrderReplaceInContract
   /\ \A pair \in ret.before :
        Signature(kr, pair[2].sig) = Signature(kr, pair[1])) =>
    /\ ActionsKeepSignatures
    /\ m_dispatcher(ret.Index).ftor = ret.ftor.body
    /\ \A pair \in replaced \cup ret.before :
         pair[1] # ret.Index => (pair \in replaced <=> pair \in ret.before)

(* ------------- k2o::buffered_dispatcher: the output cursors ------------ *)

\* What the order asked for by the request that ran last wrote through its
\* output functor.
ResponseOfPacket ==
  call(m_dispatcher(k2o_get_index(packet).index), packet,
       sizeof_index_t).out

\* The last call received the last argument byte of a request with an
\* index in range, and ran its order.
OrderJustRan == op \in {"read", "read_all"} /\ invoked # <<>>

\* Every byte read so far was stored inside the input array: no store has
\* had undefined behaviour.
StoresWithinInput == max_store < Len(m_ibuf)

\* C36: when read receives the last argument byte of a request whose index
\* is in range, the output array holds that order's response and no more:
\* m_obuf_next is at the start and m_obuf_bottom just past the response;
\* the bytes of an earlier response that were still to be handed over are
\* discarded: write hands over no more bytes than the response of the order
\* that ran last has, from its first position on, and, as long as no store
\* has gone past the input array, these bytes are that response's.
C36_ResponseReplacesOutput ==
  /\ OrderJustRan =>
       /\ m_obuf_next = 0
       /\ m_obuf_bottom = Len(ResponseOfPacket)
       /\ Take(m_obuf, m_obuf_bottom) = ResponseOfPacket
       /\ drained = <<>>
  /\ packet # <<>> =>
       /\ m_obuf_bottom = Len(ResponseOfPacket)
       /\ Len(drained) = m_obuf_next
       /\ m_obuf_next <= m_obuf_bottom
       /\ StoresWithinInput =>
            drained = Take(ResponseOfPacket, Len(drained))
  /\ packet = <<>> => drained = <<>>

\* What a store past the input array does to a response still to be handed
\* over, the arrays being adjacent: write hands over a byte that is not the
\* response's.
ResponseOverwritten ==
  /\ packet # <<>>
  /\ ~StoresWithinInput
  /\ drained # <<>>
  /\ Len(drained) <= Len(ResponseOfPacket)
  /\ drained # Take(ResponseOfPacket, Len(drained))

\* An order has run while bytes of an earlier response were still to be
\* handed over, and has left a response of its own.
C36_Witness ==
  /\ op = "read"
  /\ invoked # <<>>
  /\ Len(events) > 0
  /\ m_obuf_next = 0
  /\ m_obuf_bottom > 0

\* write has handed over the whole response of the order that ran last.
C36_WitnessDrained ==
  /\ op \in {"write", "write_all"}
  /\ Len(events) = 0
  /\ packet # <<>>
  /\ drained = ResponseOfPacket
  /\ Len(drained) > 0

(* ------------------------ bounded loading of put ----------------------- *)

\* An upper bound of the bytes put() has still to receive before the packet
\* being loaded ends: what is left of the index and the largest input_size,
\* or what is left of the arguments.
BytesToGo ==
  IF m_is_index_loaded THEN m_load_count
  ELSE m_load_count + MaxOf(map_parameters_size(kr))

\* C37: in every reachable state the bytes put since the last packet ended,
\* each answered LOADING_PACKET, are at most sizeof(index_t) + the largest
\* input_size - 1, and with the bytes still to come they do not exceed
\* needed_input_buffer_size, the count of bytes to come being at least 1:
\* a put returns RESOLVED_PACKET or DROPPED_PACKET within
\* needed_input_buffer_size bytes, and the dispatcher is then idle.
C37_BoundedLoading ==
  /\ Len(req) <= needed_input_buffer_size(kr) - 1
  /\ m_load_count >= 1
  /\ Len(req) + BytesToGo <= needed_input_buffer_size(kr)
  /\ (op = "put" /\ status = "LOADING_PACKET") =>
       /\ req # <<>>
       /\ req[Len(req)] = fed[1]
       /\ packet = <<>>
  /\ (op = "put" /\ status \in {"RESOLVED_PACKET", "DROPPED_PACKET"}) =>
       /\ Idle(This)
       /\ req = <<>>
       /\ 1 <= Len(packet)
       /\ Len(packet) <= needed_input_buffer_size(kr)

\* The bound is attained: the longest request lacks its last byte, every put
\* so far having returned LOADING_PACKET.
C37_Witness ==
  /\ op = "put"
  /\ status = "LOADING_PACKET"
  /\ Len(req) = needed_input_buffer_size(kr) - 1
  /\ BytesToGo = 1

============================================================================
